---- MODULE Spec2Model ----
(***************************************************************************)
(* DataVizPro: the data analysis engine (type inference, column profiling, *)
(* data quality, correlation) and the AI-insight hook that consumes it.    *)
(*                                                                         *)
(* Numbers are exact: every JavaScript double the engine computes on the   *)
(* modelled inputs is a ratio of small integers (or the square root of     *)
(* one), so a percentage is a pair <<numerator, denominator>> and a        *)
(* comparison against a threshold is a cross-multiplication.               *)
(***************************************************************************)
EXTENDS Integers, Sequences, FiniteSets, TLC

\* Largest number of rows of a one-column sheet of mixed cells, of a
\* two-column table, of a three-column sheet and of a tall one-column sheet.
MaxRows == 4
MaxTableRows == 3
MaxWideRows == 3
MaxTallRows == 10
\* Largest number of rows of a one-column sheet holding Date cells, and of a
\* long one-column sheet (a run of distinct numbers, then a few more cells).
MaxDateRows == 3
MaxLongRows == 20
\* Largest number of rows of a sheet whose insight hook is explored.
MaxInsightRows == 2
\* Largest number of generateInsights invocations on one dashboard.
MaxCalls == 2
MaxChartRows == 3
MaxGroups == 11
MaxFalsyRows == 2
MaxSheets == 2
MaxThresholdRows == 5
MaxOutlierRows == 5
MaxTabs == 2
MaxClock == 3
MaxVersions == 4
MaxDashboards == 2
MaxUploadRows == 2
\* const AI_TIMEOUT_MS = 30000
AI_TIMEOUT_MS == 30000

(***************************************************************************)
(* Cell values.  A cell of a parsed row is a number, a string, a boolean,  *)
(* a Date instance or null (sheet_to_json with defval: null).  Every cell  *)
(* is a record of the same shape: t is the JavaScript kind, n the numeric  *)
(* payload (the number, 1/0 for true/false, the epoch milliseconds of a    *)
(* Date), s the text of a string.                                          *)
(***************************************************************************)
Num(k) == [t |-> "number", n |-> k, s |-> ""]
Str(x) == [t |-> "string", n |-> 0, s |-> x]
Bool(b) == [t |-> "boolean", n |-> IF b THEN 1 ELSE 0, s |-> ""]
DateV(ms) == [t |-> "date", n |-> ms, s |-> ""]
Null == [t |-> "null", n |-> 0, s |-> ""]

\* The strings of the model for which Number(s) is not NaN, with their value.
NumericStrings == {"", "0", "1", "6", "12", "-5"}

StringToNumber(x) ==
  CASE x = "" -> 0
    [] x = "0" -> 0
    [] x = "1" -> 1
    [] x = "6" -> 6
    [] x = "12" -> 12
    [] x = "-5" -> 0 - 5
    [] OTHER -> 0

\* The strings of the model containing '/' or '-' that Date.parse accepts (for
\* a string with neither, no caller reads the answer).
DateStrings == {"2024-01-05", "1/2/2024", "1970-01-01T00:00:00.000Z"}

\* s.includes('/') and s.includes('-') for the strings of the model.
HasSlash(x) == x \in {"1/2/2024", "a/b"}
HasDash(x) == x \in {"2024-01-05", "a-b", "-5", "1970-01-01T00:00:00.000Z"}

\* v === null || v === undefined || v === ''
IsBlank(v) == v.t = "null" \/ (v.t = "string" /\ v.s = "")

\* isNaN(Number(v)): Number(null) = 0, Number('') = 0, Number(true) = 1,
\* Number(date) = its epoch milliseconds; only a non-numeric string is NaN.
NumberIsNaN(v) == v.t = "string" /\ v.s \notin NumericStrings

\* Number(v), for a v with ~NumberIsNaN(v).
ToNumber(v) == IF v.t = "string" THEN StringToNumber(v.s) ELSE v.n

(***************************************************************************)
(* Sequence helpers.                                                       *)
(***************************************************************************)
RECURSIVE SumSeq(_)
SumSeq(q) == IF q = <<>> THEN 0 ELSE Head(q) + SumSeq(Tail(q))

Range(q) == {q[i] : i \in DOMAIN q}

Min2(a, b) == IF a <= b THEN a ELSE b
Max2(a, b) == IF a >= b THEN a ELSE b

\* array.sort((a, b) => key(a) - key(b)): stable, ascending by key.  keys[i]
\* is the key of q[i]; the result lists the indices of q in sorted order.
RECURSIVE InsertIdx(_, _, _)
InsertIdx(i, order, keys) ==
  IF order = <<>> THEN <<i>>
  ELSE IF keys[i] < keys[Head(order)] THEN <<i>> \o order
  ELSE <<Head(order)>> \o InsertIdx(i, Tail(order), keys)

RECURSIVE SortedIdx(_, _)
SortedIdx(m, keys) ==
  IF m = 0 THEN <<>> ELSE InsertIdx(m, SortedIdx(m - 1, keys), keys)

SortByKeys(q, keys) ==
  LET order == SortedIdx(Len(q), keys)
  IN  [i \in 1..Len(q) |-> q[order[i]]]

(***************************************************************************)
(* excel-parser: type inference and column summary.                        *)
(***************************************************************************)
NonNull(values) == SelectSeq(values, LAMBDA v : ~IsBlank(v))

IsBooleanLike(v) == v.t = "boolean" \/ (v.t = "string" /\ v.s \in {"true", "false"})

\* The callback of the date filter: a Date instance is a date; otherwise the
\* expression is (parses && isString && hasSlash) || v.includes('-'), and
\* v.includes is not a function when v is a number or a boolean.
DatePredicate(v) ==
  CASE v.t = "date" -> "true"
    [] v.t = "string" ->
         IF (v.s \in DateStrings /\ HasSlash(v.s)) \/ HasDash(v.s)
         THEN "true" ELSE "false"
    [] OTHER -> "TypeError"

detectColumnType(values) ==
  LET nonNullValues == NonNull(values)
      len == Len(nonNullValues)
      booleanCount == Len(SelectSeq(nonNullValues, IsBooleanLike))
      numberCount == Len(SelectSeq(nonNullValues, LAMBDA v : ~NumberIsNaN(v)))
      dateCount == Len(SelectSeq(nonNullValues, LAMBDA v : DatePredicate(v) = "true"))
      dateThrows == \E i \in 1..len : DatePredicate(nonNullValues[i]) = "TypeError"
  IN  IF len = 0 THEN "string"
      ELSE IF booleanCount * 10 > 8 * len THEN "boolean"
      ELSE IF numberCount * 10 > 8 * len THEN "number"
      ELSE IF dateThrows THEN "TypeError"
      ELSE IF dateCount * 10 > 8 * len THEN "date"
      ELSE "string"

\* new Set(nonNullValues).size: primitives are equal by value, every Date
\* instance is an object of its own.
SetSize(vals) ==
  Cardinality({v \in Range(vals) : v.t # "date"}) + Len(SelectSeq(vals, LAMBDA v : v.t = "date"))

RECURSIVE MinSeq(_)
MinSeq(q) == IF Len(q) = 1 THEN q[1] ELSE Min2(q[1], MinSeq(Tail(q)))
RECURSIVE MaxSeq(_)
MaxSeq(q) == IF Len(q) = 1 THEN q[1] ELSE Max2(q[1], MaxSeq(Tail(q)))

MapNumber(vals) == [i \in 1..Len(vals) |-> ToNumber(vals[i])]

\* ColumnInfo.  hasStats says whether min, max and sum are present.
analyzeColumn(name, values) ==
  LET type == detectColumnType(values)
      nonNullValues == NonNull(values)
      numbers == MapNumber(SelectSeq(nonNullValues, LAMBDA v : ~NumberIsNaN(v)))
      stats == type = "number" /\ Len(numbers) > 0
  IN  [name |-> name,
       type |-> type,
       uniqueValues |-> SetSize(nonNullValues),
       nullCount |-> Len(values) - Len(nonNullValues),
       hasStats |-> stats,
       min |-> IF stats THEN MinSeq(numbers) ELSE 0,
       max |-> IF stats THEN MaxSeq(numbers) ELSE 0,
       sum |-> IF stats THEN SumSeq(numbers) ELSE 0]

ColumnValues(rows, name) == [i \in 1..Len(rows) |-> rows[i][name]]

\* The sheet parseExcelFile builds from the rows of one worksheet.
BuildSheet(headers, jsonData) ==
  [headers |-> headers,
   rows |-> jsonData,
   columns |-> [i \in 1..Len(headers) |->
                  analyzeColumn(headers[i], ColumnValues(jsonData, headers[i]))],
   rowCount |-> Len(jsonData),
   columnCount |-> Len(headers)]

\* An exception inside reader.onload is caught and the promise is rejected.
ParseThrows(headers, jsonData) ==
  \E i \in 1..Len(headers) :
    detectColumnType(ColumnValues(jsonData, headers[i])) = "TypeError"

\* The record of a worksheet with no rows.
EmptySheet == [headers |-> <<>>, rows |-> <<>>, columns |-> <<>>, rowCount |-> 0, columnCount |-> 0]

\* workbook.SheetNames.map(...): the sheet of one worksheet.
ParseSheet(worksheet) ==
  IF Len(worksheet.jsonData) = 0 THEN EmptySheet
  ELSE BuildSheet(worksheet.headers, worksheet.jsonData)

\* The sheets of a workbook with the zero-row filter left out.
AllSheets(workbook) == [i \in 1..Len(workbook) |-> ParseSheet(workbook[i])]

\* sheets.filter(s => s.rowCount > 0)
ParsedSheets(workbook) ==
  SelectSeq([i \in 1..Len(workbook) |-> ParseSheet(workbook[i])],
            LAMBDA s : s.rowCount > 0)

WorkbookThrows(workbook) ==
  \E i \in 1..Len(workbook) :
    Len(workbook[i].jsonData) > 0 /\ ParseThrows(workbook[i].headers, workbook[i].jsonData)

(***************************************************************************)
(* data-quality: analyzeDataQuality.  A percentage is <<num, den>>, den > 0.*)
(* The message, details and suggestion texts of an issue are not modelled. *)
(***************************************************************************)
NoColumn == "(none)"

\* sorted[k] of [...values].sort((a, b) => a - b), k counted from 0.
SortedNumbers(values) == SortByKeys(values, values)

\* detectOutliers counting the values on the bounds as well.
detectOutliersInclusive(values) ==
  IF Len(values) < 4 THEN 0
  ELSE LET sorted == SortedNumbers(values)
           q1 == sorted[((Len(sorted) * 25) \div 100) + 1]
           q3 == sorted[((Len(sorted) * 75) \div 100) + 1]
           iqr == q3 - q1
       IN  Len(SelectSeq(values, LAMBDA v : 2 * v <= 2 * q1 - 3 * iqr \/ 2 * v >= 2 * q3 + 3 * iqr))

detectOutliers(values) ==
  IF Len(values) < 4 THEN 0
  ELSE LET sorted == SortedNumbers(values)
           q1 == sorted[((Len(sorted) * 25) \div 100) + 1]
           q3 == sorted[((Len(sorted) * 75) \div 100) + 1]
           iqr == q3 - q1
       IN  Len(SelectSeq(values, LAMBDA v : 2 * v < 2 * q1 - 3 * iqr \/ 2 * v > 2 * q3 + 3 * iqr))

\* The class detectMixedTypes adds for one non-blank value.
MixedClass(v) ==
  IF ~NumberIsNaN(v) /\ v.t # "boolean" THEN "number"
  ELSE IF IsBooleanLike(v) THEN "boolean"
  ELSE IF v.t = "date" \/ (v.s \in DateStrings /\ (HasSlash(v.s) \/ HasDash(v.s))) THEN "date"
  ELSE "string"

detectMixedTypes(values) ==
  LET types == {MixedClass(v) : v \in Range(NonNull(values))}
  IN  [hasMixed |-> Cardinality(types) > 1, types |-> types]

\* date.toISOString() for the Date values of the model.
DateToISOString(ms) ==
  CASE ms = 0 -> "1970-01-01T00:00:00.000Z"
    [] OTHER -> "date"

\* JSON.stringify of one cell, as the kind of JSON token and its content: a
\* number, true or false, null, or a string; a Date is written as the string
\* of its toISOString().
JsonCell(v) ==
  CASE v.t = "number" -> [token |-> "number", n |-> v.n, s |-> ""]
    [] v.t = "boolean" -> [token |-> "boolean", n |-> v.n, s |-> ""]
    [] v.t = "null" -> [token |-> "null", n |-> 0, s |-> ""]
    [] v.t = "string" -> [token |-> "string", n |-> 0, s |-> v.s]
    [] v.t = "date" -> [token |-> "string", n |-> 0, s |-> DateToISOString(v.n)]

\* JSON.stringify(row): the keys in the row's order, each with its cell.
JsonRow(row) == [h \in DOMAIN row |-> JsonCell(row[h])]

\* seen counts the rows by key; duplicateRows counts the rows whose key was
\* seen before, duplicateGroups the keys seen more than once.
DuplicatesOfKeys(keys) ==
  [duplicateRows |->
     Cardinality({i \in 1..Len(keys) : \E j \in 1..(i - 1) : keys[j] = keys[i]}),
   duplicateGroups |->
     Cardinality({k \in Range(keys) :
                   Cardinality({i \in 1..Len(keys) : keys[i] = k}) > 1})]

findDuplicates(rows) == DuplicatesOfKeys([i \in 1..Len(rows) |-> JsonRow(rows[i])])

\* A percentage p = <<num, den>> compared with a whole number k: p > k.
PctAbove(p, k) == p[1] > k * p[2]

\* missingPercentage = (col.nullCount / sheet.rowCount) * 100
MissingPercentage(nullCount, rowCount) == <<nullCount * 100, rowCount>>

\* outlierPercentage = (outlierCount / numericValues.length) * 100
OutlierPercentage(outlierCount, n) == <<outlierCount * 100, n>>

\* duplicatePercentage = (duplicateRows / sheet.rowCount) * 100
DuplicatePercentage(duplicateRows, rowCount) == <<duplicateRows * 100, rowCount>>

\* MissingSeverity with ">=" for ">" at every threshold.
MissingSeverityInclusive(pct) ==
  IF pct[1] >= 50 * pct[2] THEN "critical"
  ELSE IF pct[1] >= 25 * pct[2] THEN "high"
  ELSE IF pct[1] >= 10 * pct[2] THEN "medium"
  ELSE "low"

MissingSeverity(pct) ==
  IF PctAbove(pct, 50) THEN "critical"
  ELSE IF PctAbove(pct, 25) THEN "high"
  ELSE IF PctAbove(pct, 10) THEN "medium"
  ELSE "low"

\* OutlierSeverity with the thresholds of the missing-value check.
OutlierSeverityAsMissing(pct) ==
  IF PctAbove(pct, 25) THEN "high"
  ELSE IF PctAbove(pct, 10) THEN "medium"
  ELSE "low"

OutlierSeverity(pct) ==
  IF PctAbove(pct, 15) THEN "high"
  ELSE IF PctAbove(pct, 5) THEN "medium"
  ELSE "low"

\* DuplicateSeverity with the thresholds of the missing-value check.
DuplicateSeverityAsMissing(pct) ==
  IF PctAbove(pct, 25) THEN "high"
  ELSE IF PctAbove(pct, 10) THEN "medium"
  ELSE "low"

DuplicateSeverity(pct) ==
  IF PctAbove(pct, 20) THEN "high"
  ELSE IF PctAbove(pct, 10) THEN "medium"
  ELSE "low"

\* Math.round(num / den) for den > 0: halves round up.
RoundRatio(num, den) == (2 * num + den) \div (2 * den)

\* Math.min(p * f, cap) for a percentage p, as a ratio over the same den.
CappedPenalty(p, f, cap) == <<Min2(p[1] * f, cap * p[2]), p[2]>>

\* ColumnScore with the mixed-type penalty added instead of subtracted.
ColumnScoreMixedAdded(missing, outlier, mixed) ==
  <<100 * missing[2] * outlier[2] - missing[1] * outlier[2] - outlier[1] * missing[2]
      + mixed * missing[2] * outlier[2],
    missing[2] * outlier[2]>>

\* columnScore after the three "columnScore -= penalty" statements, as a
\* ratio: 100 - missing - outlier - mixed, the first two being ratios.
ColumnScore(missing, outlier, mixed) ==
  <<100 * missing[2] * outlier[2] - missing[1] * outlier[2] - outlier[1] * missing[2]
      - mixed * missing[2] * outlier[2],
    missing[2] * outlier[2]>>

\* The body of the forEach over sheet.columns for one column: the issues it
\* pushes, in order and without ids, and its columnHealth entry.
ColumnQuality(sheet, col) ==
  LET values == ColumnValues(sheet.rows, col.name)
      missingPercentage == MissingPercentage(col.nullCount, sheet.rowCount)
      hasMissing == PctAbove(missingPercentage, 5)
      missingIssue ==
        [type |-> "missing", column |-> col.name,
         severity |-> MissingSeverity(missingPercentage),
         affectedRows |-> col.nullCount,
         percentage |-> missingPercentage]
      numericValues ==
        MapNumber(SelectSeq(values, LAMBDA v : v.t # "null" /\ ~NumberIsNaN(v)))
      outlierCount == detectOutliers(numericValues)
      outlierPercentage == OutlierPercentage(outlierCount, Len(numericValues))
      hasOutlier == col.type = "number" /\ PctAbove(outlierPercentage, 1)
      outlierIssue ==
        [type |-> "outlier", column |-> col.name,
         severity |-> OutlierSeverity(outlierPercentage),
         affectedRows |-> outlierCount,
         percentage |-> outlierPercentage]
      mixed == detectMixedTypes(values)
      mixedIssue ==
        [type |-> "mixed_type", column |-> col.name, severity |-> "medium",
         affectedRows |-> sheet.rowCount, percentage |-> <<100, 1>>]
      columnScore ==
        ColumnScore(IF hasMissing THEN CappedPenalty(missingPercentage, 1, 50) ELSE <<0, 1>>,
                    IF hasOutlier THEN CappedPenalty(outlierPercentage, 2, 30) ELSE <<0, 1>>,
                    IF mixed.hasMixed THEN 20 ELSE 0)
  IN  [issues |-> (IF hasMissing THEN <<missingIssue>> ELSE <<>>)
                  \o (IF hasOutlier THEN <<outlierIssue>> ELSE <<>>)
                  \o (IF mixed.hasMixed THEN <<mixedIssue>> ELSE <<>>),
       health |-> Max2(0, RoundRatio(columnScore[1], columnScore[2]))]

RECURSIVE ConcatAll(_)
ConcatAll(qs) == IF qs = <<>> THEN <<>> ELSE Head(qs) \o ConcatAll(Tail(qs))

SeverityOrder(sev) ==
  CASE sev = "critical" -> 0 [] sev = "high" -> 1 [] sev = "medium" -> 2 [] sev = "low" -> 3

\* OverallScore with Math.floor for Math.round.
OverallScoreFloored(healthSum, nCols, nIssues) ==
  Max2(0, (healthSum - Min2(nIssues * 5, 30) * nCols) \div nCols)

\* Math.max(0, Math.round(avgColumnHealth - issuesPenalty)), avgColumnHealth
\* being healthSum / nCols and issuesPenalty Math.min(issues.length * 5, 30).
OverallScore(healthSum, nCols, nIssues) ==
  Max2(0, RoundRatio(healthSum - Min2(nIssues * 5, 30) * nCols, nCols))

\* id: `issue-${issueId++}`, in the order the issues are pushed.
IssuesWithIds(pushed) ==
  [i \in 1..Len(pushed) |->
     [id |-> i - 1, type |-> pushed[i].type, column |-> pushed[i].column,
      severity |-> pushed[i].severity,
      affectedRows |-> pushed[i].affectedRows,
      percentage |-> pushed[i].percentage]]

\* SortIssues without the sort: the issues in the order they were pushed.
IssuesInPushOrder(withIds) == withIds

\* issues.sort by severityOrder (stable).
SortIssues(withIds) ==
  SortByKeys(withIds, [i \in 1..Len(withIds) |-> SeverityOrder(withIds[i].severity)])

\* The duplicate issue pushed when findDuplicates reports duplicate rows.
DuplicateIssues(dup, rowCount) ==
  IF dup.duplicateRows > 0
  THEN <<[type |-> "duplicate", column |-> NoColumn,
          severity |-> DuplicateSeverity(DuplicatePercentage(dup.duplicateRows, rowCount)),
          affectedRows |-> dup.duplicateRows,
          percentage |-> DuplicatePercentage(dup.duplicateRows, rowCount)]>>
  ELSE <<>>

\* The returned DataQualityReport, from the per-column results and the
\* sorted issues.
QualityReport(sheet, perColumn, issues) ==
  [overallScore |->
     OverallScore(SumSeq([i \in 1..Len(perColumn) |-> perColumn[i].health]),
                  Len(perColumn), Len(issues)),
   issues |-> issues,
   summary |-> [totalIssues |-> Len(issues),
                criticalCount |-> Len(SelectSeq(issues, LAMBDA i : i.severity = "critical")),
                highCount |-> Len(SelectSeq(issues, LAMBDA i : i.severity = "high")),
                mediumCount |-> Len(SelectSeq(issues, LAMBDA i : i.severity = "medium")),
                lowCount |-> Len(SelectSeq(issues, LAMBDA i : i.severity = "low"))],
   columnHealth |-> [n \in Range(sheet.headers) |->
                       LET i == CHOOSE k \in 1..Len(sheet.columns) :
                                  sheet.columns[k].name = n
                       IN  perColumn[i].health]]

AnalyzeColumns(sheet, perColumn) ==
  QualityReport(sheet, perColumn,
    SortIssues(IssuesWithIds(
      ConcatAll([i \in 1..Len(perColumn) |-> perColumn[i].issues])
      \o DuplicateIssues(findDuplicates(sheet.rows), sheet.rowCount))))

analyzeDataQuality(sheet) ==
  AnalyzeColumns(sheet,
    [i \in 1..Len(sheet.columns) |-> ColumnQuality(sheet, sheet.columns[i])])

(***************************************************************************)
(* data-profiling: profileColumn and generateDataProfile.                  *)
(***************************************************************************)
\* getCardinality with "ratio >= 0.5" for high.
getCardinalityInclusive(uniqueCount, totalCount) ==
  IF totalCount = 0 THEN "low"
  ELSE IF uniqueCount = totalCount THEN "unique"
  ELSE IF 2 * uniqueCount >= totalCount THEN "high"
  ELSE IF 10 * uniqueCount > totalCount THEN "medium"
  ELSE "low"

getCardinality(uniqueCount, totalCount) ==
  IF totalCount = 0 THEN "low"            \* ratio is NaN: every test is false
  ELSE IF uniqueCount = totalCount THEN "unique"
  ELSE IF 2 * uniqueCount > totalCount THEN "high"
  ELSE IF 10 * uniqueCount > totalCount THEN "medium"
  ELSE "low"

\* Twice calculateMedian(sorted).
TwiceMedian(sorted) ==
  LET mid == Len(sorted) \div 2
  IN  IF Len(sorted) % 2 # 0 THEN 2 * sorted[mid + 1] ELSE sorted[mid] + sorted[mid + 1]

\* mean = S / n, median = M2 / 2, stdDev = sqrt(V) / n with V = n * sum(x^2) - S^2;
\* left when mean < median - 0.2 * stdDev, right when mean > median + 0.2 * stdDev.
Skewness(n, S, M2, V) ==
  LET d == n * M2 - 2 * S
  IN  IF d > 0 /\ 25 * d * d > 4 * V THEN "left"
      ELSE IF d < 0 /\ 25 * d * d > 4 * V THEN "right"
      ELSE "symmetric"

\* NullPercentage taken over the non-null values instead of all values.
NullPercentageOfNonNull(total, nonNull) == <<(total - nonNull) * 100, nonNull>>

\* nullPercentage = ((values.length - nonNullValues.length) / values.length) * 100
NullPercentage(total, nonNull) == <<(total - nonNull) * 100, total>>

\* String(k) for a whole number k.
DigitText(d) == <<"0", "1", "2", "3", "4", "5", "6", "7", "8", "9">>[d + 1]

RECURSIVE NumberToString(_)
NumberToString(k) ==
  IF k < 0 THEN "-" \o NumberToString(0 - k)
  ELSE IF k < 10 THEN DigitText(k)
  ELSE NumberToString(k \div 10) \o DigitText(k % 10)

\* String(date) for the Date values of the model, in a runtime whose time
\* zone is UTC.
DateToString(ms) ==
  CASE ms = 0 -> "Thu Jan 01 1970 00:00:00 GMT+0000 (Coordinated Universal Time)"
    [] OTHER -> "date"

\* String(v), the key of a value in valueCounts.
CellToString(v) ==
  CASE v.t = "number" -> NumberToString(v.n)
    [] v.t = "boolean" -> IF v.n = 1 THEN "true" ELSE "false"
    [] v.t = "null" -> "null"
    [] v.t = "string" -> v.s
    [] v.t = "date" -> DateToString(v.n)

\* value.length > 30 ? value.substring(0, 30) + '...' : value.  Of the texts
\* of the model the text of a Date and the two texts of 31 characters are
\* longer than 30 characters.
TruncateValue(x) ==
  IF x = "Thu Jan 01 1970 00:00:00 GMT+0000 (Coordinated Universal Time)"
  THEN "Thu Jan 01 1970 00:00:00 GMT+0..."
  ELSE IF x \in {"aaaaaaaaaaaaaaaaaaaaaaaaaaaaaaX", "aaaaaaaaaaaaaaaaaaaaaaaaaaaaaaY"}
  THEN "aaaaaaaaaaaaaaaaaaaaaaaaaaaaaa..."
  ELSE x

\* The keys of a Map in insertion order: each key where it first occurs.
RECURSIVE FirstOccurrences(_)
FirstOccurrences(keys) ==
  IF keys = <<>> THEN <<>>
  ELSE LET before == FirstOccurrences(SubSeq(keys, 1, Len(keys) - 1))
           last == keys[Len(keys)]
       IN  IF last \in Range(before) THEN before ELSE Append(before, last)

\* Array.from(valueCounts.entries()).map(...): one entry per key, with the
\* number of cells that have the key and its share of all total cells.
DistributionEntries(keys, distinct, total) ==
  [i \in 1..Len(distinct) |->
     LET count == Cardinality({j \in 1..Len(keys) : keys[j] = distinct[i]})
     IN  [value |-> TruncateValue(distinct[i]),
          count |-> count,
          percentage |-> <<count * 100, total>>]]

\* .sort((a, b) => b.count - a.count).slice(0, 10)
TopTen(entries) ==
  SubSeq(SortByKeys(entries, [i \in 1..Len(entries) |-> 0 - entries[i].count]),
         1, Min2(10, Len(entries)))

DistributionOfKeys(keys, total) ==
  TopTen(DistributionEntries(keys, FirstOccurrences(keys), total))

\* Distribution counting the null and empty cells as well.
DistributionOfAllValues(values, nonNullValues) ==
  DistributionOfKeys([i \in 1..Len(values) |-> CellToString(values[i])], Len(values))

\* distribution: the ten most frequent values among the non-null cells.
Distribution(values, nonNullValues) ==
  DistributionOfKeys([i \in 1..Len(nonNullValues) |-> CellToString(nonNullValues[i])],
                     Len(values))

\* Math.ceil(Math.sqrt(n))
CeilSqrt(n) == CHOOSE k \in 0..n : k * k >= n /\ (k = 0 \/ (k - 1) * (k - 1) < n)

\* Math.min(binCount - 1, Math.floor((v - min) / binWidth)) with
\* binWidth = range / binCount, as an index from 0.  When range is 0 the
\* index is NaN ((v - min) / 0 is 0 / 0, and floor and min keep the NaN),
\* written -1 here.  The quotient is taken exactly.
BinIndex(v, min, range, binCount) ==
  IF range = 0 THEN 0 - 1
  ELSE Min2(binCount - 1, ((v - min) * binCount) \div range)

\* bins after the forEach: bins[binIndex]++ for every value.  An index NaN
\* names no element of the array, so the increment changes no bin.
Histogram(numericValues, min, range) ==
  LET binCount == Min2(10, CeilSqrt(Len(numericValues)))
  IN  [b \in 1..binCount |->
         Len(SelectSeq(numericValues,
                       LAMBDA v : BinIndex(v, min, range, binCount) = b - 1))]

\* ColumnProfile.  hasNumeric says whether the numeric fields are present;
\* variance is stdDev squared; histogram lists the counts of the bins.
profileColumn(col, values) ==
  LET nonNullValues == NonNull(values)
      numericValues == MapNumber(SelectSeq(nonNullValues, LAMBDA v : ~NumberIsNaN(v)))
      n == Len(numericValues)
      numeric == col.type = "number" /\ n > 0
      sorted == SortedNumbers(numericValues)
      S == SumSeq(numericValues)
      M2 == IF numeric THEN TwiceMedian(sorted) ELSE 0
      V == n * SumSeq([i \in 1..n |-> numericValues[i] * numericValues[i]]) - S * S
  IN  [name |-> col.name,
       type |-> col.type,
       totalCount |-> Len(values),
       uniqueCount |-> col.uniqueValues,
       nullCount |-> col.nullCount,
       nullPercentage |-> NullPercentage(Len(values), Len(nonNullValues)),
       cardinality |-> getCardinality(col.uniqueValues, Len(values)),
       distribution |-> Distribution(values, nonNullValues),
       hasNumeric |-> numeric,
       mean |-> IF numeric THEN <<S, n>> ELSE <<0, 1>>,
       median |-> <<M2, 2>>,
       variance |-> IF numeric THEN <<V, n * n>> ELSE <<0, 1>>,
       min |-> col.min,
       max |-> col.max,
       range |-> col.max - col.min,
       q1 |-> IF numeric THEN sorted[((n * 25) \div 100) + 1] ELSE 0,
       q3 |-> IF numeric THEN sorted[((n * 75) \div 100) + 1] ELSE 0,
       histogram |-> IF numeric THEN Histogram(numericValues, col.min, col.max - col.min)
                     ELSE <<>>,
       skewness |-> IF numeric THEN Skewness(n, S, M2, V) ELSE "absent"]

\* p/q <= r/s for p, r >= 0 and q, s > 0, by continued fractions (no product).
RECURSIVE FracLE(_, _, _, _)
FracLE(p, q, r, s) ==
  LET ip == p \div q
      ir == r \div s
      pr == p % q
      rr == r % s
  IN  IF ip # ir THEN ip < ir
      ELSE IF pr = 0 THEN TRUE
      ELSE IF rr = 0 THEN FALSE
      ELSE FracLE(s, rr, q, pr)

\* The Pearson coefficient of the first n = min(len) entries of x and y is
\* N / sqrt(D) with the integers below (numerator and denominator of the code
\* both scaled by n); the code returns 0 when its denominator is 0.
calculatePearsonCorrelation(x, y) ==
  LET n == Min2(Len(x), Len(y))
      sx == SumSeq([i \in 1..n |-> x[i]])
      sy == SumSeq([i \in 1..n |-> y[i]])
      sxy == SumSeq([i \in 1..n |-> x[i] * y[i]])
      sxx == SumSeq([i \in 1..n |-> x[i] * x[i]])
      syy == SumSeq([i \in 1..n |-> y[i] * y[i]])
      D == (n * sxx - sx * sx) * (n * syy - sy * sy)
  IN  IF n < 3 \/ D = 0 THEN [N |-> 0, D |-> 1]
      ELSE [N |-> n * sxy - sx * sy, D |-> D]

\* Math.abs(r) < a / 10
AbsBelowTenths(r, a) == r.N * r.N * 100 < a * a * r.D

getCorrelationStrength(r) ==
  IF AbsBelowTenths(r, 1) THEN "none"
  ELSE IF AbsBelowTenths(r, 3) THEN "weak"
  ELSE IF AbsBelowTenths(r, 5) THEN "moderate"
  ELSE IF AbsBelowTenths(r, 7) THEN "strong"
  ELSE "very_strong"

\* (2k - 1) / 2000 <= |r|, or < when strict
HalfStepBelow(k, r, strict) ==
  IF strict THEN ~FracLE(r.N * r.N, r.D, (2 * k - 1) * (2 * k - 1), 4000000)
  ELSE FracLE((2 * k - 1) * (2 * k - 1), 4000000, r.N * r.N, r.D)

\* The largest k in lo..hi with HalfStepBelow(k), lo when there is none above lo.
RECURSIVE LargestStep(_, _, _, _)
LargestStep(lo, hi, r, strict) ==
  IF lo = hi THEN lo
  ELSE LET mid == (lo + hi + 1) \div 2
       IN  IF HalfStepBelow(mid, r, strict) THEN LargestStep(mid, hi, r, strict)
           ELSE LargestStep(lo, mid - 1, r, strict)

\* Math.round(r * 1000), the reported correlation in thousandths: Math.round
\* takes a half up, so a negative half goes towards zero.
RoundMilli(r) ==
  IF r.N >= 0 THEN LargestStep(0, 1000, r, FALSE)
  ELSE 0 - LargestStep(0, 1000, r, TRUE)

\* sheet.rows.map(row => Number(row[name])).filter(v => !isNaN(v))
CorrelationValues(sheet, name) ==
  MapNumber(SelectSeq(ColumnValues(sheet.rows, name), LAMBDA v : ~NumberIsNaN(v)))

\* CorrelationLoop with the inner loop starting at j = i.
CorrelationLoopFromSelf(m) == {p \in (1..m) \X (1..m) : p[1] <= p[2]}

\* The index pairs the two nested loops visit, over m numeric columns.
CorrelationLoop(m) == {p \in (1..m) \X (1..m) : p[1] < p[2]}

Abs(k) == IF k < 0 THEN 0 - k ELSE k

\* The pairs of the loop in the order it visits them.
RECURSIVE PairsInOrder(_, _, _)
PairsInOrder(i, j, m) ==
  IF i > m THEN <<>>
  ELSE IF j > m THEN PairsInOrder(i + 1, 1, m)
  ELSE (IF <<i, j>> \in CorrelationLoop(m) THEN <<(<<i, j>>)>> ELSE <<>>)
       \o PairsInOrder(i, j + 1, m)

generateDataProfile(sheet) ==
  LET columns == [i \in 1..Len(sheet.columns) |->
                    profileColumn(sheet.columns[i],
                                  ColumnValues(sheet.rows, sheet.columns[i].name))]
      numericColumns == SelectSeq(sheet.columns, LAMBDA c : c.type = "number")
      visited == PairsInOrder(1, 1, Len(numericColumns))
      Entry(p) ==
        LET col1 == numericColumns[p[1]]
            col2 == numericColumns[p[2]]
            values1 == CorrelationValues(sheet, col1.name)
            values2 == CorrelationValues(sheet, col2.name)
            correlation == calculatePearsonCorrelation(values1, values2)
        IN  IF Len(values1) >= 3 /\ Len(values2) >= 3
            THEN <<[column1 |-> col1.name, column2 |-> col2.name,
                    correlation |-> RoundMilli(correlation),
                    strength |-> getCorrelationStrength(correlation)]>>
            ELSE <<>>
      pushed == ConcatAll([k \in 1..Len(visited) |-> Entry(visited[k])])
      \* correlations.sort((a, b) => Math.abs(b.correlation) - Math.abs(a.correlation))
      correlations ==
        SortByKeys(pushed, [k \in 1..Len(pushed) |-> 0 - Abs(pushed[k].correlation)])
  IN  [columns |-> columns, correlations |-> correlations]

(***************************************************************************)
(* excel-parser: aggregateData, the series of a bar, line, area or pie     *)
(* chart.  An aggregated value is a number in hundredths (h), NaN, Infinity *)
(* or -Infinity.                                                           *)
(***************************************************************************)
AggregationTypes == {"sum", "avg", "count", "min", "max"}

Hundredths(h) == [kind |-> "number", h |-> h]
NaNValue == [kind |-> "NaN", h |-> 0]
InfinityValue == [kind |-> "Infinity", h |-> 0]
NegInfinityValue == [kind |-> "-Infinity", h |-> 0]

\* !v: null, '', 0 and false are falsy; a Date and every other cell is not.
IsFalsy(v) ==
  \/ v.t = "null"
  \/ v.t = "string" /\ v.s = ""
  \/ v.t = "number" /\ v.n = 0
  \/ v.t = "boolean" /\ v.n = 0

\* String(row[groupBy] || 'Unknown')
GroupKey(v) == IF IsFalsy(v) THEN "Unknown" ELSE CellToString(v)

\* The array index a property key is, or -1: the text of a non-negative
\* integer in its canonical form.
ArrayIndexOf(v) ==
  CASE IsFalsy(v) -> 0 - 1
    [] v.t = "number" /\ v.n > 0 -> v.n
    [] v.t = "string" /\ v.s \in {"0", "1", "6", "12"} -> StringToNumber(v.s)
    [] OTHER -> 0 - 1

\* The keys of grouped in the order Object.entries lists them: the array
\* indices ascending, then the other keys in the order they were created.
\* keys[i] and indices[i] are the key of row i and the array index it is.
GroupedKeys(keys, indices) ==
  LET distinct == FirstOccurrences(keys)
      indexOf(k) == indices[CHOOSE i \in 1..Len(keys) : keys[i] = k]
  IN  SortByKeys(distinct,
                 [j \in 1..Len(distinct) |->
                    IF indexOf(distinct[j]) >= 0 THEN indexOf(distinct[j])
                    ELSE 1000000000])

\* grouped[key]: Number(row[aggregateColumn]) of the rows of the key, the NaN
\* ones left out.
GroupedValues(data, keys, key, aggregateColumn) ==
  LET idx == SelectSeq([i \in 1..Len(data) |-> i],
                       LAMBDA i : keys[i] = key /\ ~NumberIsNaN(data[i][aggregateColumn]))
  IN  [j \in 1..Len(idx) |-> ToNumber(data[idx[j]][aggregateColumn])]

\* The switch on aggregationType, then Math.round(value * 100) / 100.
AggregateValue(values, aggregationType) ==
  CASE aggregationType = "avg" ->
         IF values = <<>> THEN NaNValue
         ELSE Hundredths(RoundRatio(100 * SumSeq(values), Len(values)))
    [] aggregationType = "count" -> Hundredths(100 * Len(values))
    [] aggregationType = "min" ->
         IF values = <<>> THEN InfinityValue ELSE Hundredths(100 * MinSeq(values))
    [] aggregationType = "max" ->
         IF values = <<>> THEN NegInfinityValue ELSE Hundredths(100 * MaxSeq(values))
    [] OTHER -> Hundredths(100 * SumSeq(values))

\* Object.entries(grouped).map(...)
AggregateEntries(data, keys, groupedKeys, aggregateColumn, aggregationType) ==
  [j \in 1..Len(groupedKeys) |->
     [name |-> groupedKeys[j],
      value |-> AggregateValue(GroupedValues(data, keys, groupedKeys[j], aggregateColumn),
                               aggregationType)]]

\* The comparator (a, b) => b.value - a.value is a consistent order unless a
\* NaN value meets two values that differ: NaN compares equal to both.
ComparatorConsistent(entries) ==
  \/ \A i \in 1..Len(entries) : entries[i].value.kind # "NaN"
  \/ \A i, j \in 1..Len(entries) :
       entries[i].value.kind # "NaN" /\ entries[j].value.kind # "NaN"
         => entries[i].value = entries[j].value

\* The key that sorts an entry descending by value; NaN ties with all.
DescendingKey(value) ==
  CASE value.kind = "number" -> 0 - value.h
    [] value.kind = "Infinity" -> 0 - 2000000000
    [] value.kind = "-Infinity" -> 2000000000
    [] OTHER -> 0

Permuted(q) ==
  {[i \in 1..Len(q) |-> q[p[i]]] :
     p \in {f \in [1..Len(q) -> 1..Len(q)] : \A i, j \in 1..Len(q) : f[i] = f[j] => i = j}}

\* .sort((a, b) => b.value - a.value): the orders the sort can leave the
\* entries in.  A consistent comparator gives the stable descending order; an
\* inconsistent one leaves an implementation-defined order.
SortedByValue(entries) ==
  IF ComparatorConsistent(entries)
  THEN {SortByKeys(entries, [i \in 1..Len(entries) |-> DescendingKey(entries[i].value)])}
  ELSE Permuted(entries)

\* The results aggregateData can return.
aggregateData(data, groupBy, aggregateColumn, aggregationType) ==
  LET keys == [i \in 1..Len(data) |-> GroupKey(data[i][groupBy])]
      indices == [i \in 1..Len(data) |-> ArrayIndexOf(data[i][groupBy])]
      entries == AggregateEntries(data, keys, GroupedKeys(keys, indices),
                                  aggregateColumn, aggregationType)
  IN  {SubSeq(sorted, 1, Min2(10, Len(sorted))) : sorted \in SortedByValue(entries)}

(***************************************************************************)
(* useAIInsights: the local fallback and the responses of the edge         *)
(* function.  An insight is a record; its texts are the template (kind)    *)
(* and the numbers and column names substituted into it.                   *)
(***************************************************************************)
Insight(kind, severity, confidence, category, related, chart, nums) ==
  [kind |-> kind, severity |-> severity, confidence |-> confidence,
   category |-> category, relatedColumns |-> related, chartType |-> chart,
   nums |-> nums]

ColumnNames(cols) == [i \in 1..Len(cols) |-> cols[i].name]

generateFallbackInsights(sh, report, profile) ==
  LET numericColumns == SelectSeq(sh.columns, LAMBDA c : c.type = "number")
      categoricalColumns == SelectSeq(sh.columns, LAMBDA c : c.type = "string")
      qualitySeverity == IF report.overallScore >= 80 THEN "success"
                         ELSE IF report.overallScore >= 60 THEN "warning"
                         ELSE "critical"
      highNullCols == SelectSeq(profile.columns, LAMBDA c : PctAbove(c.nullPercentage, 20))
      strongCorrelations ==
        SelectSeq(profile.correlations, LAMBDA c : c.strength \in {"strong", "very_strong"})
      skewedCols == SelectSeq(profile.columns, LAMBDA c : c.skewness \in {"right", "left"})
  IN  <<Insight("dataset", "info", <<100, 1>>, "pattern", <<>>, "null",
                <<sh.rowCount, sh.columnCount, Len(numericColumns), Len(categoricalColumns)>>),
        Insight("quality", qualitySeverity, <<100, 1>>, "quality", <<>>, "null",
                <<report.overallScore, Len(report.issues)>>)>>
      \o (IF Len(highNullCols) > 0
          THEN <<Insight("highNull", "warning", <<95, 1>>, "quality",
                         ColumnNames(highNullCols), "bar", <<Len(highNullCols)>>)>>
          ELSE <<>>)
      \o (IF Len(strongCorrelations) > 0
          THEN <<Insight("correlation", "info",
                         <<Abs(strongCorrelations[1].correlation), 10>>, "correlation",
                         <<strongCorrelations[1].column1, strongCorrelations[1].column2>>,
                         "scatter", <<strongCorrelations[1].correlation>>)>>
          ELSE <<>>)
      \o (IF Len(skewedCols) > 0
          THEN <<Insight("skewed", "info", <<85, 1>>, "pattern",
                         ColumnNames(skewedCols), "bar", <<Len(skewedCols)>>)>>
          ELSE <<>>)

\* What supabase.functions.invoke can resolve to: a transport error
\* ({error: fnError}), a payload with an error field, or a payload whose
\* insights value is a well-formed array, is falsy (null, missing), is not an
\* array, or is an array with an element that has neither an explanation nor
\* relatedColumns.
Responses ==
  {[kind |-> "fnError", value |-> ""],
   [kind |-> "dataError", value |-> ""],
   [kind |-> "insights", value |-> "array"],
   [kind |-> "insights", value |-> "null"],
   [kind |-> "insights", value |-> "notArray"],
   [kind |-> "insights", value |-> "badElement"]}

NoResponse == [kind |-> "none", value |-> ""]

\* The insight list the edge function's well-formed array carries, enriched.
RemoteInsights ==
  <<Insight("remote", "info", <<90, 1>>, "trend", <<"A">>, "line", <<>>)>>

\* The try block after the await throws: fnError, data.error, or a TypeError
\* from (data.insights || []).map(...).
ResponseThrows(resp) ==
  \/ resp.kind \in {"fnError", "dataError"}
  \/ resp.kind = "insights" /\ resp.value \in {"notArray", "badElement"}

\* enrichedInsights, for a response that does not throw.
EnrichedInsights(resp) == IF resp.value = "array" THEN RemoteInsights ELSE <<>>

\* err.message
ErrorMessage(resp) == IF resp.kind = "insights" THEN resp.value ELSE resp.kind

NoError == "null"

(***************************************************************************)
(* dashboard-storage and DashboardVersioning.  A version is its id, the    *)
(* millisecond of Date.now() in v_<ms>; a dashboard is its id, fileName,   *)
(* currentVersion and versions.  Names, notes, charts and dates are not    *)
(* modelled.                                                               *)
(***************************************************************************)
\* dashboards.findIndex(p), or 0 when there is none.
FindIndex(dashboards, field, value) ==
  IF \E i \in 1..Len(dashboards) : dashboards[i][field] = value
  THEN CHOOSE i \in 1..Len(dashboards) :
         /\ dashboards[i][field] = value
         /\ \A j \in 1..(i - 1) : dashboards[j][field] # value
  ELSE 0

\* saveDashboard: the stored list after the call.
saveDashboard(stored, dashboard) ==
  LET existingIndex == FindIndex(stored, "id", dashboard.id)
  IN  IF existingIndex > 0 THEN [stored EXCEPT ![existingIndex] = dashboard]
      ELSE Append(stored, dashboard)

\* deleteDashboard: the stored list after the call.
deleteDashboard(stored, id) == SelectSeq(stored, LAMBDA d : d.id # id)

\* dashboard.versions.push(version); dashboard.currentVersion = version.id
WithVersion(dashboard, versionId) ==
  [dashboard EXCEPT !.versions = Append(@, [id |-> versionId]),
                    !.currentVersion = versionId]

\* The stored list after handleSave in a component whose currentDashboard is
\* savedDashboards[current] (none when current is 0).
SavedAfterSave(stored, dashboards, current, name, versionId, dashboardId) ==
  IF current > 0 THEN saveDashboard(stored, WithVersion(dashboards[current], versionId))
  ELSE saveDashboard(stored, [id |-> dashboardId, fileName |-> name,
                              currentVersion |-> versionId,
                              versions |-> <<[id |-> versionId]>>])

\* The stored list after handleDeleteVersion(versionId) on currentDashboard.
SavedAfterDelete(stored, dashboard, versionId) ==
  LET versions == SelectSeq(dashboard.versions, LAMBDA v : v.id # versionId)
  IN  IF Len(versions) = 0 THEN deleteDashboard(stored, dashboard.id)
      ELSE saveDashboard(stored,
             [dashboard EXCEPT
                !.versions = versions,
                !.currentVersion = IF @ = versionId THEN versions[Len(versions)].id ELSE @])

(***************************************************************************)
(* State.                                                                  *)
(*   file          the workbook handed to parseExcelFile: its worksheets   *)
(*   phase         selected -> parsed -> dashboard, or selected -> error   *)
(*   data          the sheets of the ExcelFile given to onFileProcessed    *)
(*   activeSheet   the index (from 0) of the sheet tab the dashboard shows *)
(*   sheet         data.sheets[activeSheet], the ParsedData shown          *)
(*   qualityReport, dataProfile   the dashboard's memoized analyses        *)
(*   insights, isLoading, error, isTimeout   the state of useAIInsights    *)
(*   abortControllerRef   the call whose controller the ref holds, or 0    *)
(*   calls         the generateInsights invocations so far: where each is  *)
(*                 (awaiting the invoke, or done), whether its controller  *)
(*                 is aborted, its timer, and the response it got          *)
(*   chartRows, config, chartData   a ConfigurableChart's rows prop, the   *)
(*                 aggregation of its config, and its memoized chartData   *)
(*   localStorage  the dashboards stored under dataviz_dashboards          *)
(*   fileName, savedDashboards   of each mounted DashboardVersioning (one   *)
(*                 per browser tab): its fileName prop and its state       *)
(*   now           Date.now(), in milliseconds                             *)
(*   dashboardIds  the number of ids generateDashboardId has made          *)
(***************************************************************************)
VARIABLES file, phase, data, activeSheet, sheet, qualityReport, dataProfile,
          insights, isLoading, error, isTimeout, abortControllerRef, calls,
          chartRows, config, chartData,
          localStorage, fileName, savedDashboards, now, dashboardIds

engineVars == <<file, phase, data, activeSheet, sheet, qualityReport, dataProfile>>
hookVars == <<insights, isLoading, error, isTimeout, abortControllerRef, calls>>
chartVars == <<chartRows, config, chartData>>
versionVars == <<localStorage, fileName, savedDashboards, now, dashboardIds>>
vars == <<engineVars, hookVars, chartVars, versionVars>>

NoSheet == [headers |-> <<>>, rows |-> <<>>, columns |-> <<>>, rowCount |-> 0, columnCount |-> 0]
NoReport == [overallScore |-> 0, issues |-> <<>>,
             summary |-> [totalIssues |-> 0, criticalCount |-> 0, highCount |-> 0,
                          mediumCount |-> 0, lowCount |-> 0],
             columnHealth |-> <<>>]
NoProfile == [columns |-> <<>>, correlations |-> <<>>]

\* One column of mixed cells.
ColumnCells == {Num(1), Num(6), Str("12"), Str("abc"), Bool(TRUE), Str(""), Null}
\* Two columns of numbers.
TableCells == {Num(0), Num(8), Num(31)}
\* Three columns, and one tall column, of a number or an empty cell.
SparseCells == {Num(1), Null}

RowsOver(headers, cells, maxRows) ==
  UNION {[1..n -> [Range(headers) -> cells]] : n \in 1..maxRows}

SheetsOver(headers, cells, maxRows) ==
  {[headers |-> headers, jsonData |-> rows] : rows \in RowsOver(headers, cells, maxRows)}

\* One column of a Date, the text of its toISOString(), a number or a text
\* with a dash that is no date.
DateCells == {DateV(0), Str("1970-01-01T00:00:00.000Z"), Num(1), Str("a-b")}
\* One column of a short text or one of two texts of 31 characters that
\* differ in the last one.
LongTextCells == {Str("abc"), Null,
                  Str("aaaaaaaaaaaaaaaaaaaaaaaaaaaaaaX"), Str("aaaaaaaaaaaaaaaaaaaaaaaaaaaaaaY")}
\* The cells after the run of distinct numbers in a long column: a number of
\* the run again, an empty cell, or a number far above the run.
LongCells == {Num(1), Null, Num(100)}

\* The long one-column sheets: the numbers 1..d, then up to five cells of
\* LongCells, MaxLongRows - 2 to MaxLongRows rows in all.
LongSheets ==
  {[headers |-> <<"A">>,
    jsonData |-> [i \in 1..d |-> [h \in {"A"} |-> Num(i)]] \o tail] :
     tail \in UNION {[1..t -> [{"A"} -> LongCells]] : t \in 1..5},
     d \in (MaxLongRows - 5)..(MaxLongRows - 3)}

\* One column of texts: a number, a word, a boolean or a date.
ThresholdCells == {Str("12"), Str("abc"), Str("true"), Str("2024-01-05")}

\* One column of small numbers and a large one.
OutlierCells == {Num(1), Num(3), Num(100)}

Worksheets ==
  SheetsOver(<<"A">>, ColumnCells, MaxRows)
  \cup SheetsOver(<<"A">>, OutlierCells, MaxOutlierRows)
  \cup SheetsOver(<<"A">>, ThresholdCells, MaxThresholdRows)
  \cup SheetsOver(<<"A", "B">>, TableCells, MaxTableRows)
  \cup SheetsOver(<<"A", "B", "C">>, SparseCells, MaxWideRows)
  \cup SheetsOver(<<"A">>, SparseCells, MaxTallRows)
  \cup SheetsOver(<<"A">>, DateCells, MaxDateRows)
  \cup SheetsOver(<<"A">>, LongTextCells, MaxDateRows)
  \cup {w \in LongSheets : Len(w.jsonData) \in (MaxLongRows - 2)..MaxLongRows}

\* The worksheets behind the dashboards whose insight hook is explored.
InsightWorksheets == SheetsOver(<<"A", "B">>, SparseCells, MaxInsightRows)

\* A file is selected; nothing is parsed yet.
InitWorkbooks(workbooks) ==
  /\ file \in workbooks
  /\ phase = "selected"
  /\ data = <<>>
  /\ activeSheet = 0
  /\ sheet = NoSheet
  /\ qualityReport = NoReport
  /\ dataProfile = NoProfile
  /\ insights = <<>>
  /\ isLoading = FALSE
  /\ error = NoError
  /\ isTimeout = FALSE
  /\ abortControllerRef = 0
  /\ calls = <<>>

\* The selected file is a workbook of one of the worksheets.
InitWith(worksheets) == InitWorkbooks({<<w>> : w \in worksheets})

\* No chart is mounted.
NoChart ==
  /\ chartRows = <<>>
  /\ config = "sum"
  /\ chartData = <<>>

\* No DashboardVersioning is mounted and nothing is stored.
NoStore ==
  /\ localStorage = <<>>
  /\ fileName = <<>>
  /\ savedDashboards = <<>>
  /\ now = 0
  /\ dashboardIds = 0

Init == InitWith(Worksheets) /\ NoChart /\ NoStore

\* processFile: parseExcelFile resolves with at least one sheet and
\* onFileProcessed hands the file to the page, which mounts the Dashboard with
\* its first sheet active; or an exception in the parser rejects the file, or
\* no sheet is left, and only a toast is shown.
ParseFile ==
  /\ phase = "selected"
  /\ IF WorkbookThrows(file) \/ ParsedSheets(file) = <<>>
     THEN /\ phase' = "error"
          /\ data' = data
          /\ sheet' = sheet
     ELSE /\ phase' = "parsed"
          /\ data' = ParsedSheets(file)
          /\ sheet' = ParsedSheets(file)[1]
  /\ UNCHANGED <<file, activeSheet, qualityReport, dataProfile, hookVars, chartVars, versionVars>>

\* Dashboard's first render: the two useMemo analyses of the active sheet.
RenderDashboard ==
  /\ phase = "parsed"
  /\ qualityReport' = analyzeDataQuality(sheet)
  /\ dataProfile' = generateDataProfile(sheet)
  /\ phase' = "dashboard"
  /\ UNCHANGED <<file, data, activeSheet, sheet, hookVars, chartVars, versionVars>>

\* A click on another sheet tab: setActiveSheet, and the render that follows,
\* whose useMemo analyses run on the sheet now active.
setActiveSheet(i) ==
  /\ phase = "dashboard"
  /\ i \in 0..(Len(data) - 1)
  /\ i # activeSheet
  /\ activeSheet' = i
  /\ sheet' = data[i + 1]
  /\ qualityReport' = analyzeDataQuality(data[i + 1])
  /\ dataProfile' = generateDataProfile(data[i + 1])
  /\ UNCHANGED <<file, phase, data, hookVars, chartVars, versionVars>>

\* generateInsights up to its await (the debounced effect or the refresh
\* button calls it): abort the controller in the ref, reset the flags, make a
\* new controller, arm the timer and send the request.
GenerateInsights ==
  /\ phase = "dashboard"
  /\ Len(calls) < MaxCalls
  /\ calls' = Append([i \in 1..Len(calls) |->
                        IF i = abortControllerRef
                        THEN [calls[i] EXCEPT !.aborted = TRUE] ELSE calls[i]],
                     [pc |-> "awaiting", aborted |-> FALSE, timer |-> "armed",
                      response |-> NoResponse])
  /\ isLoading' = TRUE
  /\ error' = NoError
  /\ isTimeout' = FALSE
  /\ abortControllerRef' = Len(calls) + 1
  /\ UNCHANGED <<engineVars, chartVars, versionVars, insights>>

\* The setTimeout callback, AI_TIMEOUT_MS after the call started and before
\* its invoke returned (clearTimeout runs at the return): controller.abort()
\* and setIsTimeout(true).  The signal is not handed to invoke, which goes on.
Timeout(i) ==
  /\ calls[i].timer = "armed"
  /\ calls' = [calls EXCEPT ![i].aborted = TRUE, ![i].timer = "fired"]
  /\ isTimeout' = TRUE
  /\ UNCHANGED <<engineVars, chartVars, versionVars, insights, isLoading, error, abortControllerRef>>

\* The invoke of call i resolves and the rest of generateInsights runs:
\* clearTimeout, then the success path, or the catch block with its aborted
\* branch, then finally.
InvokeReturns(i, resp) ==
  /\ calls[i].pc = "awaiting"
  /\ calls' = [calls EXCEPT ![i].pc = "done",
                            ![i].timer = IF @ = "armed" THEN "cleared" ELSE @,
                            ![i].response = resp]
  /\ IF ~ResponseThrows(resp)
     THEN /\ insights' = EnrichedInsights(resp)
          /\ error' = error
     ELSE /\ insights' = generateFallbackInsights(sheet, qualityReport, dataProfile)
          /\ error' = IF calls[i].aborted THEN error ELSE ErrorMessage(resp)
  /\ isLoading' = FALSE
  /\ UNCHANGED <<engineVars, chartVars, versionVars, isTimeout, abortControllerRef>>

Next == ParseFile \/ RenderDashboard

Spec == Init /\ [][Next]_vars

InitInsights == InitWith(InsightWorksheets) /\ NoChart /\ NoStore

NextInsights ==
  \/ ParseFile
  \/ RenderDashboard
  \/ GenerateInsights
  \/ \E i \in DOMAIN calls : Timeout(i)
  \/ \E i \in DOMAIN calls : \E resp \in Responses : InvokeReturns(i, resp)

SpecInsights == InitInsights /\ [][NextInsights]_vars

(***************************************************************************)
(* The versions of saved dashboards: DashboardVersioning components, one   *)
(* in each of MaxTabs browser tabs, over one localStorage.                 *)
(***************************************************************************)
Tabs == 1..MaxTabs
FileNames == {"a.xlsx", "b.xlsx"}

StoredVersions == SumSeq([i \in 1..Len(localStorage) |-> Len(localStorage[i].versions)])

\* Each tab has uploaded a file and mounted its dashboard:
\* useState(() => getAllDashboards()) reads the empty store.
InitVersions ==
  /\ InitWorkbooks({<<>>})
  /\ NoChart
  /\ localStorage = <<>>
  /\ fileName \in [Tabs -> FileNames]
  /\ savedDashboards = [t \in Tabs |-> <<>>]
  /\ now = 0
  /\ dashboardIds = 0

\* A millisecond passes.
Tick ==
  /\ now < MaxClock
  /\ now' = now + 1
  /\ UNCHANGED <<engineVars, hookVars, chartVars, localStorage, fileName, savedDashboards,
                 dashboardIds>>

\* handleSave in tab t, a click in the save dialog: it comes at least a
\* millisecond after everything before it.
handleSave(t) ==
  LET current == FindIndex(savedDashboards[t], "fileName", fileName[t])
  IN  /\ now < MaxClock
      /\ StoredVersions < MaxVersions
      /\ current = 0 => dashboardIds < MaxDashboards
      /\ now' = now + 1
      /\ dashboardIds' = IF current = 0 THEN dashboardIds + 1 ELSE dashboardIds
      /\ localStorage' = SavedAfterSave(localStorage, savedDashboards[t], current,
                                        fileName[t], now + 1, dashboardIds + 1)
      /\ savedDashboards' = [savedDashboards EXCEPT ![t] = localStorage']
      /\ UNCHANGED <<engineVars, hookVars, chartVars, fileName>>

\* handleDeleteVersion(versionId) in tab t, for a version the history lists.
handleDeleteVersion(t, versionId) ==
  LET current == FindIndex(savedDashboards[t], "fileName", fileName[t])
  IN  /\ current > 0
      /\ \E k \in 1..Len(savedDashboards[t][current].versions) :
            savedDashboards[t][current].versions[k].id = versionId
      /\ localStorage' = SavedAfterDelete(localStorage, savedDashboards[t][current], versionId)
      /\ savedDashboards' = [savedDashboards EXCEPT ![t] = localStorage']
      /\ UNCHANGED <<engineVars, hookVars, chartVars, fileName, now, dashboardIds>>

\* createNewVersion(dashboardId, ...) for a stored dashboard: the version id
\* is the millisecond of the call.
createNewVersion(dashboardId) ==
  LET index == FindIndex(localStorage, "id", dashboardId)
  IN  /\ index > 0
      /\ StoredVersions < MaxVersions
      /\ localStorage' = saveDashboard(localStorage, WithVersion(localStorage[index], now))
      /\ UNCHANGED <<engineVars, hookVars, chartVars, fileName, savedDashboards, now,
                     dashboardIds>>

NextVersions ==
  \/ Tick
  \/ \E t \in Tabs : handleSave(t)
  \/ \E t \in Tabs : \E versionId \in 0..MaxClock : handleDeleteVersion(t, versionId)
  \/ \E dashboardId \in 1..MaxDashboards : createNewVersion(dashboardId)

SpecVersions == InitVersions /\ [][NextVersions]_vars

(***************************************************************************)
(* Uploads of workbooks of several worksheets, some of them empty.         *)
(***************************************************************************)
\* A worksheet with no rows: sheet_to_json gives [].
EmptyWorksheet == [headers |-> <<>>, jsonData |-> <<>>]

UploadWorksheets == {EmptyWorksheet} \cup SheetsOver(<<"A">>, SparseCells, MaxUploadRows)

Workbooks == UNION {[1..n -> UploadWorksheets] : n \in 1..MaxSheets}

InitUpload == InitWorkbooks(Workbooks) /\ NoChart /\ NoStore

NextUpload ==
  \/ ParseFile
  \/ RenderDashboard
  \/ \E i \in 0..(MaxSheets - 1) : setActiveSheet(i)

SpecUpload == InitUpload /\ [][NextUpload]_vars

(***************************************************************************)
(* A ConfigurableChart over the columns R (the x axis, grouped by) and V   *)
(* (the y axis, aggregated).                                               *)
(***************************************************************************)
ChartRow(r, v) == [h \in {"R", "V"} |-> IF h = "R" THEN r ELSE v]

\* The rows of a chart of few groups: group A with a number, an empty cell or
\* a text in V, group B likewise, and a row with no group.
FewGroupCells ==
  {ChartRow(Str("A"), v) : v \in {Num(10), Num(20), Null, Str("abc")}}
  \cup {ChartRow(Str("B"), v) : v \in {Num(5), Null, Str("abc")}}
  \cup {ChartRow(Null, Num(5))}

\* Up to MaxChartRows rows of few groups.
FewGroupRows == UNION {[1..n -> FewGroupCells] : n \in 1..MaxChartRows}

\* One row for each of MaxGroups - 2 to MaxGroups groups, the groups named by
\* the numbers g down to 1; the first three and the last three rows have the
\* value 1 or 2, the rows between them the value 1.
ManyGroupRows ==
  UNION {{[i \in 1..g |->
             ChartRow(Num(g + 1 - i),
                      IF i <= 3 THEN first[i]
                      ELSE IF i > g - 3 THEN last[i - (g - 3)] ELSE Num(1))] :
            first \in [1..3 -> {Num(1), Num(2)}], last \in [1..3 -> {Num(1), Num(2)}]} :
           g \in (MaxGroups - 2)..MaxGroups}

\* Up to MaxFalsyRows rows whose group-by cell is 0, false, '' or empty, or a
\* group of its own.
FalsyGroupRows ==
  UNION {[1..n -> {ChartRow(r, Num(5)) :
                     r \in {Num(0), Bool(FALSE), Str(""), Null, Str("A")}}] :
           n \in 1..MaxFalsyRows}

ChartRows == FewGroupRows \cup ManyGroupRows \cup FalsyGroupRows

\* The chart's first render: useState(initialConfig), whose aggregation the
\* dashboard sets to 'sum', and the useMemo of chartData.
InitAggregate ==
  /\ InitWorkbooks({<<>>})
  /\ NoStore
  /\ chartRows \in ChartRows
  /\ config = "sum"
  /\ chartData \in aggregateData(chartRows, "R", "V", "sum")

\* updateConfig({ aggregation }) from the aggregation select, and the render
\* that follows: config.aggregation changed, so useMemo recomputes chartData.
updateConfig(aggregation) ==
  /\ aggregation # config
  /\ config' = aggregation
  /\ chartData' \in aggregateData(chartRows, "R", "V", aggregation)
  /\ UNCHANGED <<engineVars, hookVars, chartRows, versionVars>>

NextAggregate == \E aggregation \in AggregationTypes : updateConfig(aggregation)

SpecAggregate == InitAggregate /\ [][NextAggregate]_vars

(***************************************************************************)
(* Properties of the engine.                                               *)
(***************************************************************************)
Analysed == phase = "dashboard"

\* onFileProcessed was called with the parsed file.
Delivered == phase \in {"parsed", "dashboard"}

IssueTypes == {qualityReport.issues[i].type : i \in DOMAIN qualityReport.issues}

PctInRange(p) == p[2] > 0 /\ 0 <= p[1] /\ p[1] <= 100 * p[2]
PctStrictlyInside(p) == p[2] > 0 /\ 0 < p[1] /\ p[1] < 100 * p[2]

\* C1: for every sheet with at least one row, overallScore is a number in
\* [0,100] and every column has a columnHealth value in [0,100].
C1_ScoresInRange ==
  Analysed =>
    /\ qualityReport.overallScore \in 0..100
    /\ DOMAIN qualityReport.columnHealth = Range(sheet.headers)
    /\ \A h \in Range(sheet.headers) : qualityReport.columnHealth[h] \in 0..100

\* A report with issues of three kinds and a column below full health.
C1_Witness ==
  /\ Analysed
  /\ Cardinality(IssueTypes) >= 3
  /\ \E h \in Range(sheet.headers) : qualityReport.columnHealth[h] < 100
  /\ qualityReport.overallScore < 100

\* C2: type inference, profiling and quality analysis return a result for
\* every sheet of numbers, strings, booleans and nulls: nothing throws, so
\* no upload ends in the parser's catch block.
C2_NeverThrows == phase # "error"

\* C5: every column profile has 0 <= nullPercentage <= 100 and every quality
\* issue has 0 <= percentage <= 100.
C5_PercentagesInRange ==
  Analysed =>
    /\ \A i \in DOMAIN dataProfile.columns :
         PctInRange(dataProfile.columns[i].nullPercentage)
    /\ \A i \in DOMAIN qualityReport.issues :
         PctInRange(qualityReport.issues[i].percentage)

\* A sheet with a partly empty column and two issues of different kinds whose
\* percentages lie strictly between 0 and 100.
C5_Witness ==
  /\ Analysed
  /\ \E i \in DOMAIN dataProfile.columns :
       PctStrictlyInside(dataProfile.columns[i].nullPercentage)
  /\ \E i, j \in DOMAIN qualityReport.issues :
       /\ qualityReport.issues[i].type # qualityReport.issues[j].type
       /\ PctStrictlyInside(qualityReport.issues[i].percentage)
       /\ PctStrictlyInside(qualityReport.issues[j].percentage)

\* C6: with ratio = uniqueCount / totalCount, totalCount the number of rows,
\* cardinality is unique iff ratio = 1, high iff 0.5 < ratio < 1, medium iff
\* 0.1 < ratio <= 0.5, low iff 0 <= ratio <= 0.1.
C6_CardinalityPartition ==
  Analysed =>
    \A i \in DOMAIN dataProfile.columns :
      LET c == dataProfile.columns[i]
          u == c.uniqueCount
          t == c.totalCount
      IN  /\ t = Len(sheet.rows)
          /\ c.cardinality \in {"unique", "high", "medium", "low"}
          /\ (c.cardinality = "unique") <=> (u = t)
          /\ (c.cardinality = "high") <=> (2 * u > t /\ u < t)
          /\ (c.cardinality = "medium") <=> (10 * u > t /\ 2 * u <= t)
          /\ (c.cardinality = "low") <=> (0 <= u /\ 10 * u <= t)

\* A column with a value in it whose ratio is at most 0.1, and so low.
C6_Witness ==
  /\ Analysed
  /\ \E i \in DOMAIN dataProfile.columns :
       /\ dataProfile.columns[i].uniqueCount > 0
       /\ dataProfile.columns[i].cardinality = "low"

ColumnType(name) == (CHOOSE c \in Range(sheet.columns) : c.name = name).type

\* C8: the correlation list has at most one entry per unordered pair of
\* distinct numeric columns: no self-pair, both columns typed number, and
\* never both (A,B) and (B,A).
C8_CorrelationPairs ==
  Analysed =>
    LET cs == dataProfile.correlations
    IN  /\ \A i \in DOMAIN cs :
             /\ cs[i].column1 # cs[i].column2
             /\ ColumnType(cs[i].column1) = "number"
             /\ ColumnType(cs[i].column2) = "number"
        /\ \A i, j \in DOMAIN cs :
             i # j => {cs[i].column1, cs[i].column2} # {cs[j].column1, cs[j].column2}

\* Three numeric columns give three pairs, and the sort by absolute value
\* has put a pair of the later columns first.
C8_Witness ==
  /\ Analysed
  /\ Len(dataProfile.correlations) = 3
  /\ dataProfile.correlations[1].column1 = "B"

\* The cells of a column that are neither empty nor NaN as numbers.
NonNullNumericCount(name) ==
  Len(SelectSeq(ColumnValues(sheet.rows, name), LAMBDA v : ~IsBlank(v) /\ ~NumberIsNaN(v)))

\* C9: a correlation pair is produced only if both columns hold at least 3
\* non-null numeric values; null and empty cells do not count as values.
C9_ThreeNumericValues ==
  Analysed =>
    \A i \in DOMAIN dataProfile.correlations :
      /\ NonNullNumericCount(dataProfile.correlations[i].column1) >= 3
      /\ NonNullNumericCount(dataProfile.correlations[i].column2) >= 3

\* The bucket of a correlation reported in thousandths.
StrengthOfMilli(k) ==
  IF Abs(k) < 100 THEN "none"
  ELSE IF Abs(k) < 300 THEN "weak"
  ELSE IF Abs(k) < 500 THEN "moderate"
  ELSE IF Abs(k) < 700 THEN "strong"
  ELSE "very_strong"

\* C10: the strength of every emitted pair is the bucket of the absolute
\* value of its reported correlation, the value rounded to 3 decimals.
C10_StrengthOfReported ==
  Analysed =>
    \A i \in DOMAIN dataProfile.correlations :
      dataProfile.correlations[i].strength
        = StrengthOfMilli(dataProfile.correlations[i].correlation)

(***************************************************************************)
(* Properties of the insight hook.                                         *)
(***************************************************************************)
\* A response that is a failed request: a transport error, a payload with an
\* error field, or an insights value that is not a well-formed array.
RequestFailed(resp) ==
  \/ resp.kind \in {"fnError", "dataError"}
  \/ resp.kind = "insights" /\ resp.value # "array"

\* C3: whenever a generateInsights request fails (transport error, payload
\* with an error field, or malformed insights value), the hook ends with the
\* local fallback for (sheet, qualityReport, dataProfile) as insights, error
\* set to the failure message and isLoading false.
C3_FailureInstallsFallback ==
  [][\A i \in DOMAIN calls :
       (calls[i].pc = "awaiting" /\ calls'[i].pc = "done"
          /\ RequestFailed(calls'[i].response))
       => /\ insights' = generateFallbackInsights(sheet, qualityReport, dataProfile)
          /\ error' = ErrorMessage(calls'[i].response)
          /\ isLoading' = FALSE]_vars

\* C4: once the timer of the current request has fired, the fallback is
\* installed without waiting for the invoke to return, and a response that
\* arrives afterwards never replaces it.
C4_TimeoutInstallsFallback ==
  \A i \in DOMAIN calls :
    (i = abortControllerRef /\ calls[i].timer = "fired")
    => insights = generateFallbackInsights(sheet, qualityReport, dataProfile)

\* C29: an invocation of generateInsights that was followed by a later one is
\* cancelled: when its invoke returns, with success or failure, it changes
\* neither insights nor error, and it does not set isLoading to false while
\* the later invocation is still pending; so after all have settled the
\* insights are those of the most recent invocation.
C29_EarlierCallCancelled ==
  [][\A i \in DOMAIN calls :
       (calls[i].pc = "awaiting" /\ calls'[i].pc = "done" /\ i < Len(calls))
       => /\ insights' = insights
          /\ error' = error
          /\ calls[Len(calls)].pc = "awaiting" => isLoading' = TRUE]_vars

\* The first of two calls returned last with the remote insights, which
\* replaced the fallback the second call had installed.
EarlierCallOverwrote ==
  /\ Len(calls) = 2
  /\ calls[1].pc = "done" /\ calls[1].response = [kind |-> "insights", value |-> "array"]
  /\ calls[2].pc = "done" /\ calls[2].response = [kind |-> "fnError", value |-> ""]
  /\ insights = RemoteInsights
  /\ error = "fnError"

(***************************************************************************)
(* Properties of the quality report.                                       *)
(***************************************************************************)
\* The issues of one type the report holds for one column.
ColumnIssues(type, name) ==
  {k \in DOMAIN qualityReport.issues :
     qualityReport.issues[k].type = type /\ qualityReport.issues[k].column = name}

\* Two percentages are the same number.
PctEqual(p, q) == p[1] * q[2] = q[1] * p[2]

\* min(f * percentage, cap) of the issue of the given type the report holds
\* for the column, 0 when it holds none.
PenaltyReported(type, name, f, cap) ==
  IF ColumnIssues(type, name) = {} THEN <<0, 1>>
  ELSE LET p == qualityReport.issues[CHOOSE k \in ColumnIssues(type, name) : TRUE].percentage
       IN  IF f * p[1] > cap * p[2] THEN <<cap, 1>> ELSE <<f * p[1], p[2]>>

MixedPenaltyReported(name) == IF ColumnIssues("mixed_type", name) = {} THEN 0 ELSE 20

\* max(0, round(100 - pm - po - mixed)) for two ratios and a whole number.
HealthFrom(pm, po, mixed) ==
  Max2(0, RoundRatio(100 * pm[2] * po[2] - pm[1] * po[2] - po[1] * pm[2]
                       - mixed * pm[2] * po[2],
                     pm[2] * po[2]))

\* C11: with missingPct = nullCount / rowCount * 100, a column has a missing
\* issue iff missingPct > 5; its severity is critical above 50, high above 25,
\* medium above 10, else low; and the column score loses min(missingPct, 50)
\* exactly when the issue is emitted.
C11_MissingIssue ==
  Analysed =>
    \A i \in DOMAIN sheet.columns :
      LET c == sheet.columns[i]
          num == c.nullCount * 100
          den == sheet.rowCount
          emitted == num > 5 * den
          found == ColumnIssues("missing", c.name)
      IN  /\ Cardinality(found) = (IF emitted THEN 1 ELSE 0)
          /\ \A k \in found :
                /\ PctEqual(qualityReport.issues[k].percentage, <<num, den>>)
                /\ qualityReport.issues[k].severity =
                     (IF num > 50 * den THEN "critical"
                      ELSE IF num > 25 * den THEN "high"
                      ELSE IF num > 10 * den THEN "medium"
                      ELSE "low")
          /\ qualityReport.columnHealth[c.name] =
               HealthFrom(IF ~emitted THEN <<0, 1>>
                          ELSE IF num > 50 * den THEN <<50, 1>> ELSE <<num, den>>,
                          PenaltyReported("outlier", c.name, 2, 30),
                          MixedPenaltyReported(c.name))

\* A column with exactly 5% of its cells empty: no missing issue, full health.
C11_Witness ==
  /\ Analysed
  /\ \E i \in DOMAIN sheet.columns :
       /\ sheet.columns[i].nullCount > 0
       /\ sheet.columns[i].nullCount * 100 = 5 * sheet.rowCount
       /\ ColumnIssues("missing", sheet.columns[i].name) = {}
       /\ qualityReport.columnHealth[sheet.columns[i].name] = 100

\* The numeric values of a column the outlier check counts: Number(v) of the
\* cells that are not null and not NaN as numbers.
OutlierCandidates(name) ==
  MapNumber(SelectSeq(ColumnValues(sheet.rows, name),
                      LAMBDA v : v.t # "null" /\ ~NumberIsNaN(v)))

\* C12: with outlierPct = outlierCount / numericValueCount * 100, a numeric
\* column has an outlier issue iff outlierPct > 1; its severity is high above
\* 15, medium above 5, else low; its affectedRows is outlierCount; the column
\* score loses min(2 * outlierPct, 30) exactly when the issue is emitted; and
\* a column that is not numeric has no outlier issue.
C12_OutlierIssue ==
  Analysed =>
    \A i \in DOMAIN sheet.columns :
      LET c == sheet.columns[i]
          found == ColumnIssues("outlier", c.name)
          outlierCount == detectOutliers(OutlierCandidates(c.name))
          num == outlierCount * 100
          den == Len(OutlierCandidates(c.name))
          emitted == num > den
      IN  IF c.type # "number" THEN found = {}
          ELSE /\ Cardinality(found) = (IF emitted THEN 1 ELSE 0)
               /\ \A k \in found :
                     /\ qualityReport.issues[k].affectedRows = outlierCount
                     /\ PctEqual(qualityReport.issues[k].percentage, <<num, den>>)
                     /\ qualityReport.issues[k].severity =
                          (IF num > 15 * den THEN "high"
                           ELSE IF num > 5 * den THEN "medium"
                           ELSE "low")
               /\ qualityReport.columnHealth[c.name] =
                    HealthFrom(PenaltyReported("missing", c.name, 1, 50),
                               IF ~emitted THEN <<0, 1>>
                               ELSE IF 2 * num > 30 * den THEN <<30, 1>>
                               ELSE <<2 * num, den>>,
                               MixedPenaltyReported(c.name))

\* A numeric column with one outlier among twenty values: a low issue, and
\* ten points off the column's health.
C12_Witness ==
  /\ Analysed
  /\ \E i \in DOMAIN sheet.columns :
       \E k \in ColumnIssues("outlier", sheet.columns[i].name) :
         /\ qualityReport.issues[k].severity = "low"
         /\ qualityReport.issues[k].affectedRows = 1
         /\ qualityReport.columnHealth[sheet.columns[i].name] = 90

\* The class of a non-null value: a boolean or the text of one, a Date or a
\* text that reads as a date, a number or the text of one, or another string.
ValueClass(v) ==
  IF IsBooleanLike(v) THEN "boolean"
  ELSE IF v.t = "date" THEN "date"
  ELSE IF ~NumberIsNaN(v) THEN "number"
  ELSE IF v.s \in DateStrings THEN "date"
  ELSE "string"

ValueClasses(name) == {ValueClass(v) : v \in Range(NonNull(ColumnValues(sheet.rows, name)))}

\* C13: a column has a mixed_type issue, of severity medium and with 20 off
\* its score, iff its non-null values fall into more than one of the classes
\* number, boolean, date and string.
C13_MixedTypeIssue ==
  Analysed =>
    \A i \in DOMAIN sheet.columns :
      LET c == sheet.columns[i]
          found == ColumnIssues("mixed_type", c.name)
          mixed == Cardinality(ValueClasses(c.name)) > 1
      IN  /\ Cardinality(found) = (IF mixed THEN 1 ELSE 0)
          /\ \A k \in found : qualityReport.issues[k].severity = "medium"
          /\ qualityReport.columnHealth[c.name] =
               HealthFrom(PenaltyReported("missing", c.name, 1, 50),
                          PenaltyReported("outlier", c.name, 2, 30),
                          IF mixed THEN 20 ELSE 0)

\* The rows equal in every field to an earlier row.
ExactDuplicateRows ==
  {i \in DOMAIN sheet.rows : \E j \in 1..(i - 1) : sheet.rows[j] = sheet.rows[i]}

DuplicateIssuesReported ==
  {k \in DOMAIN qualityReport.issues : qualityReport.issues[k].type = "duplicate"}

\* C14: if some row is an exact duplicate of an earlier row, the report holds
\* exactly one duplicate issue, with no column, whose affectedRows is the
\* number of rows duplicating an earlier row (rows minus distinct rows), whose
\* percentage is affectedRows / rowCount * 100 and whose severity is high
\* above 20, medium above 10, else low; with no duplicate row it holds none.
C14_DuplicateIssue ==
  Analysed =>
    LET n == Cardinality(ExactDuplicateRows)
    IN  /\ n = sheet.rowCount - Cardinality(Range(sheet.rows))
        /\ Cardinality(DuplicateIssuesReported) = (IF n > 0 THEN 1 ELSE 0)
        /\ \A k \in DuplicateIssuesReported :
              /\ qualityReport.issues[k].column = NoColumn
              /\ qualityReport.issues[k].affectedRows = n
              /\ PctEqual(qualityReport.issues[k].percentage, <<n * 100, sheet.rowCount>>)
              /\ qualityReport.issues[k].severity =
                   (IF n * 100 > 20 * sheet.rowCount THEN "high"
                    ELSE IF n * 100 > 10 * sheet.rowCount THEN "medium"
                    ELSE "low")

\* A sheet of 20 rows, 5 of them exact duplicates of earlier rows.
FiveOfTwenty == Analysed /\ sheet.rowCount = 20 /\ Cardinality(ExactDuplicateRows) = 5

\* C15 as stated: 20 rows with 5 exact duplicates give one duplicate issue
\* with affectedRows 5, percentage 25 and severity medium.
C15_FiveOfTwentyMedium ==
  FiveOfTwenty =>
    /\ Cardinality(DuplicateIssuesReported) = 1
    /\ \A k \in DuplicateIssuesReported :
          /\ qualityReport.issues[k].affectedRows = 5
          /\ PctEqual(qualityReport.issues[k].percentage, <<25, 1>>)
          /\ qualityReport.issues[k].severity = "medium"

\* C15, amended: 20 rows with 5 exact duplicates give one duplicate issue
\* with affectedRows 5, percentage 25 and severity high (25 is above 20).
C15_FiveOfTwentyHigh ==
  FiveOfTwenty =>
    /\ Cardinality(DuplicateIssuesReported) = 1
    /\ \A k \in DuplicateIssuesReported :
          /\ qualityReport.issues[k].affectedRows = 5
          /\ PctEqual(qualityReport.issues[k].percentage, <<25, 1>>)
          /\ qualityReport.issues[k].severity = "high"

\* The 20-row sheet with 5 duplicates has been analysed and its duplicate
\* issue reported.
C15_Witness == FiveOfTwenty /\ DuplicateIssuesReported # {}

\* The sum of the columnHealth values of the first m headers.
RECURSIVE HealthSum(_)
HealthSum(m) ==
  IF m = 0 THEN 0 ELSE qualityReport.columnHealth[sheet.headers[m]] + HealthSum(m - 1)

\* C16: overallScore = max(0, round(mean columnHealth - min(5 * issues, 30))),
\* the issues counting every emitted issue, the duplicate issue included;
\* and the duplicate issue changes no column's health, which is 100 less the
\* penalties of the column's own issues.
C16_OverallScore ==
  Analysed =>
    LET n == Len(sheet.headers)
        penalty == IF 5 * Len(qualityReport.issues) < 30
                   THEN 5 * Len(qualityReport.issues) ELSE 30
        twice == 2 * (HealthSum(n) - penalty * n)
    IN  /\ \E m \in (0 - 30)..100 :
              /\ 2 * n * m <= twice + n
              /\ twice + n < 2 * n * (m + 1)
              /\ qualityReport.overallScore = (IF m < 0 THEN 0 ELSE m)
        /\ \A h \in Range(sheet.headers) :
              qualityReport.columnHealth[h] =
                HealthFrom(PenaltyReported("missing", h, 1, 50),
                           PenaltyReported("outlier", h, 2, 30),
                           MixedPenaltyReported(h))

\* A report with a duplicate issue next to column issues, columns of
\* different health whose mean is not whole, and a score strictly inside.
C16_Witness ==
  /\ Analysed
  /\ DuplicateIssuesReported # {}
  /\ Len(qualityReport.issues) >= 3
  /\ HealthSum(Len(sheet.headers)) % Len(sheet.headers) # 0
  /\ qualityReport.overallScore \in 1..99

\* critical, high, medium, low as ranks 0..3.
SeverityRank(sev) ==
  IF sev = "critical" THEN 0 ELSE IF sev = "high" THEN 1 ELSE IF sev = "medium" THEN 2 ELSE 3

IssuesOfSeverity(sev) ==
  {k \in DOMAIN qualityReport.issues : qualityReport.issues[k].severity = sev}

\* C17: the issues are ordered critical, high, medium, low: no issue comes
\* after one of strictly lower severity; and the summary's four counts are
\* the numbers of issues of each severity and add up to totalIssues.
C17_SortedBySeverity ==
  Analysed =>
    LET issues == qualityReport.issues
        summary == qualityReport.summary
    IN  /\ \A i, j \in DOMAIN issues :
              i < j => SeverityRank(issues[i].severity) <= SeverityRank(issues[j].severity)
        /\ \A k \in DOMAIN issues : issues[k].severity \in {"critical", "high", "medium", "low"}
        /\ summary.criticalCount = Cardinality(IssuesOfSeverity("critical"))
        /\ summary.highCount = Cardinality(IssuesOfSeverity("high"))
        /\ summary.mediumCount = Cardinality(IssuesOfSeverity("medium"))
        /\ summary.lowCount = Cardinality(IssuesOfSeverity("low"))
        /\ summary.totalIssues = Len(issues)
        /\ summary.totalIssues = summary.criticalCount + summary.highCount
                                   + summary.mediumCount + summary.lowCount

\* Issues of three severities, one of them moved by the sort in front of an
\* issue pushed before it.
C17_Witness ==
  /\ Analysed
  /\ Cardinality({qualityReport.issues[k].severity : k \in DOMAIN qualityReport.issues}) >= 3
  /\ \E i, j \in DOMAIN qualityReport.issues :
       i < j /\ qualityReport.issues[i].id > qualityReport.issues[j].id

(***************************************************************************)
(* Properties of the column profiles.                                      *)
(***************************************************************************)
\* The columns all of whose cells are null.
AllNullColumns ==
  {i \in DOMAIN sheet.columns :
     \A r \in DOMAIN sheet.rows : sheet.rows[r][sheet.columns[i].name].t = "null"}

\* C18: a column whose values are all null has inferred type string,
\* nullPercentage 100, no numeric profile field (mean, median, stdDev,
\* quartiles, skewness, histogram), an empty distribution and cardinality low.
C18_AllNullColumn ==
  Analysed =>
    \A i \in AllNullColumns :
      LET p == dataProfile.columns[i]
      IN  /\ sheet.columns[i].type = "string"
          /\ p.name = sheet.columns[i].name
          /\ p.type = "string"
          /\ PctEqual(p.nullPercentage, <<100, 1>>)
          /\ ~p.hasNumeric
          /\ p.skewness = "absent"
          /\ p.histogram = <<>>
          /\ p.distribution = <<>>
          /\ p.cardinality = "low"

\* A sheet with an all-null column next to a column with numeric fields.
C18_Witness ==
  /\ Analysed
  /\ AllNullColumns # {}
  /\ \E i \in DOMAIN dataProfile.columns : dataProfile.columns[i].hasNumeric

(***************************************************************************)
(* Properties of the chart data.                                           *)
(***************************************************************************)
\* The group keys of the chart's rows, and the rows of one key.
ChartGroups == {GroupKey(chartRows[i]["R"]) : i \in 1..Len(chartRows)}

RowsOfGroup(key) ==
  SelectSeq(chartRows, LAMBDA row : GroupKey(row["R"]) = key)

\* The sum, in hundredths, of the numbers in the value column of a group.
SumOfNumbers(key) ==
  100 * SumSeq([i \in 1..Len(RowsOfGroup(key)) |->
                  IF RowsOfGroup(key)[i]["V"].t = "number"
                  THEN RowsOfGroup(key)[i]["V"].n ELSE 0])

\* a >= b for two aggregated values; a NaN is out of order with nothing.
ValueAtLeast(a, b) ==
  \/ a.kind = "NaN"
  \/ b.kind = "NaN"
  \/ a.kind = "Infinity"
  \/ b.kind = "-Infinity"
  \/ a.kind = "number" /\ b.kind = "number" /\ a.h >= b.h

\* The aggregated value of a group under the chart's aggregation.
ValueOfGroup(key) ==
  AggregateValue(GroupedValues(chartRows, [i \in 1..Len(chartRows) |-> GroupKey(chartRows[i]["R"])],
                               key, "V"),
                 config)

ChartNames == {chartData[i].name : i \in 1..Len(chartData)}

\* At most 10 entries, one for each group key (for 10 of them when there are
\* more).
OnePerGroup ==
  /\ Len(chartData) <= 10
  /\ ChartNames \subseteq ChartGroups
  /\ \A i, j \in 1..Len(chartData) : chartData[i].name = chartData[j].name => i = j
  /\ Len(chartData) = Min2(10, Cardinality(ChartGroups))
  /\ \A i \in 1..Len(chartData) : chartData[i].value = ValueOfGroup(chartData[i].name)

NonIncreasing ==
  \A i, j \in 1..Len(chartData) :
     i < j => ValueAtLeast(chartData[i].value, chartData[j].value)

\* No group left out has a larger value than a group returned.
TenLargest ==
  \A key \in ChartGroups \ ChartNames :
     \A i \in 1..Len(chartData) : ValueAtLeast(chartData[i].value, ValueOfGroup(key))

SumsOfGroups ==
  config = "sum" =>
    \A i \in 1..Len(chartData) :
       chartData[i].value = Hundredths(SumOfNumbers(chartData[i].name))

\* C19: aggregateData returns at most 10 entries, one per distinct group
\* key, ordered by value non-increasing; when more than 10 groups exist the
\* entries are the 10 groups with the largest aggregated values; for sum each
\* value is the sum of the group's numeric values.
C19_TopTenDescending ==
  /\ OnePerGroup
  /\ NonIncreasing
  /\ TenLargest
  /\ SumsOfGroups

\* C19 on the chart data with no NaN value.
C19_WithoutNaN ==
  (\A i \in 1..Len(chartData) : chartData[i].value.kind # "NaN") => C19_TopTenDescending

\* The rows A:10, A:20, B:5 summed give [A:30, B:5].
C19_ExampleSummed ==
  chartRows = <<ChartRow(Str("A"), Num(10)), ChartRow(Str("A"), Num(20)),
                ChartRow(Str("B"), Num(5))>> /\ config = "sum"
    => chartData = <<[name |-> "A", value |-> Hundredths(3000)],
                     [name |-> "B", value |-> Hundredths(500)]>>

\* The rows whose value-column cell is a valid numeric value: not null and
\* coercible to a number.
ValidValueRows ==
  SelectSeq(chartRows, LAMBDA row : row["V"].t # "null" /\ ~NumberIsNaN(row["V"]))

CountTotal == SumSeq([i \in 1..Len(chartData) |-> chartData[i].value.h]) \div 100

\* C20: with count, the returned values sum to at most the number of rows
\* whose value-column cell is a valid numeric value, and to exactly that
\* number when at most 10 groups exist; a null cell is not counted.
C20_CountOfValidValues ==
  config = "count" =>
    /\ CountTotal <= Len(ValidValueRows)
    /\ Cardinality(ChartGroups) <= 10 => CountTotal = Len(ValidValueRows)

\* C20 on the charts with no empty cell in the value column.
C20_CountWithoutNulls ==
  (\A i \in 1..Len(chartRows) : chartRows[i]["V"].t # "null") => C20_CountOfValidValues

\* The averages of the rows (no group):5, B:abc, A:10 left in the order of
\* the groups: 5, NaN, 10.
AveragesUnsorted ==
  /\ chartRows = <<ChartRow(Null, Num(5)), ChartRow(Str("B"), Str("abc")),
                   ChartRow(Str("A"), Num(10))>>
  /\ config = "avg"
  /\ chartData = <<[name |-> "Unknown", value |-> Hundredths(500)],
                   [name |-> "B", value |-> NaNValue],
                   [name |-> "A", value |-> Hundredths(1000)]>>

\* The counts of one row A:null: the empty cell is counted.
NullCounted ==
  /\ chartRows = <<ChartRow(Str("A"), Null)>>
  /\ config = "count"
  /\ chartData = <<[name |-> "A", value |-> Hundredths(100)]>>

\* Eleven groups counted: ten entries, one row left out.
ElevenGroupsCounted ==
  /\ Cardinality(ChartGroups) = 11
  /\ config = "count"
  /\ Len(chartData) = 10
  /\ CountTotal = Len(ValidValueRows) - 1

\* The group a row belongs to when only an empty cell is "Unknown".
StringOrUnknown(v) == IF v.t = "null" THEN "Unknown" ELSE CellToString(v)

GroupsByString == {StringOrUnknown(chartRows[i]["R"]) : i \in 1..Len(chartRows)}

\* C21: aggregateData groups each row under the string form of its group-by
\* cell and maps only an empty cell to "Unknown": a cell 0, false or '' is
\* grouped under "0", "false" or "", so (with at most 10 groups) the names
\* returned are the string forms of the group-by cells.
C21_OnlyNullIsUnknown ==
  Cardinality(GroupsByString) <= 10 => ChartNames = GroupsByString

\* C21 on the charts with no 0, false or '' in the group-by column.
C21_WithoutFalsyCells ==
  (\A i \in 1..Len(chartRows) :
      chartRows[i]["R"].t = "null" \/ ~IsFalsy(chartRows[i]["R"]))
    => C21_OnlyNullIsUnknown

\* A row grouped by 0 is returned under "Unknown".
ZeroIsUnknown ==
  /\ chartRows = <<ChartRow(Num(0), Num(5))>>
  /\ chartData = <<[name |-> "Unknown", value |-> Hundredths(500)]>>

\* C23: no number the engine returns is NaN or infinite: aggregateData
\* returns a finite value for every group, also with avg, min or max for a
\* group none of whose value-column cells is numeric-coercible, and the
\* overallScore of a report is a number.
C23_FiniteValues ==
  /\ \A i \in 1..Len(chartData) : chartData[i].value.kind = "number"
  /\ qualityReport.overallScore \in 0..100

\* C23 on the charts whose groups each have a numeric-coercible value.
C23_GroupsWithNumbers ==
  (\A key \in ChartGroups :
      \E i \in 1..Len(RowsOfGroup(key)) : ~NumberIsNaN(RowsOfGroup(key)[i]["V"]))
    => C23_FiniteValues

\* The minimum of a group with one text in the value column is Infinity.
MinimumOfNothing ==
  /\ chartRows = <<ChartRow(Str("A"), Str("abc"))>>
  /\ config = "min"
  /\ chartData = <<[name |-> "A", value |-> InfinityValue]>>

(***************************************************************************)
(* Properties of type inference.                                           *)
(***************************************************************************)
\* The non-null values of a column of the sheet, and how many of them satisfy
\* the boolean, the number and the date predicate.
NonNullOf(name) == NonNull(ColumnValues(sheet.rows, name))

BooleanCount(name) == Len(SelectSeq(NonNullOf(name), IsBooleanLike))
NumberCount(name) == Len(SelectSeq(NonNullOf(name), LAMBDA v : ~NumberIsNaN(v)))
DateCount(name) == Len(SelectSeq(NonNullOf(name), LAMBDA v : DatePredicate(v) = "true"))

\* count is at least 80% of the len non-null values.
AtLeast80(count, len) == 10 * count >= 8 * len

\* The first of boolean, number and date that at least 80% of the non-null
\* values satisfy; string if none does or there is no non-null value.
TypeAtLeast80(name) ==
  LET len == Len(NonNullOf(name))
  IN  IF len = 0 THEN "string"
      ELSE IF AtLeast80(BooleanCount(name), len) THEN "boolean"
      ELSE IF AtLeast80(NumberCount(name), len) THEN "number"
      ELSE IF AtLeast80(DateCount(name), len) THEN "date"
      ELSE "string"

\* C24: detectColumnType returns the first of boolean, number, date whose
\* predicate at least 80% of the non-null values satisfy (exactly 80% is
\* enough), string if none reaches 80%, and string when no value is non-null.
C24_TypeAtLeast80 ==
  Delivered =>
    \A i \in DOMAIN sheet.columns :
       sheet.columns[i].type = TypeAtLeast80(sheet.columns[i].name)

\* No predicate is satisfied by exactly 80% of a column's non-null values.
NoExact80 ==
  \A i \in DOMAIN sheet.columns :
     LET name == sheet.columns[i].name
         len == Len(NonNullOf(name))
     IN  \A count \in {BooleanCount(name), NumberCount(name), DateCount(name)} :
            10 * count # 8 * len

\* C24 on the columns none of whose predicates is at exactly 80%.
C24_AwayFrom80 == NoExact80 => C24_TypeAtLeast80

\* Four numeric texts and a word in five rows: 80% numeric, typed string.
EightyPercentNumeric ==
  /\ Delivered
  /\ sheet.rows = [i \in 1..5 |-> [h \in {"A"} |-> IF i = 5 THEN Str("abc") ELSE Str("12")]]
  /\ sheet.columns[1].type = "string"

\* The non-null values of the sheet's columns.
SheetValues ==
  UNION {Range(NonNullOf(sheet.columns[i].name)) : i \in DOMAIN sheet.columns}

\* C25: detectMixedTypes gives a non-null value the class boolean, number or
\* date iff the value satisfies the boolean, number or date predicate that
\* detectColumnType counts; a text with a '-' and a Date instance get the
\* same class in both.
C25_SamePredicates ==
  Delivered =>
    \A v \in SheetValues :
       /\ MixedClass(v) = "boolean" <=> IsBooleanLike(v)
       /\ MixedClass(v) = "number" <=> ~NumberIsNaN(v)
       /\ MixedClass(v) = "date" <=> DatePredicate(v) = "true"

\* The class type inference gives a value: the first predicate it satisfies.
InferredClass(v) ==
  IF IsBooleanLike(v) THEN "boolean"
  ELSE IF ~NumberIsNaN(v) THEN "number"
  ELSE IF DatePredicate(v) = "true" THEN "date"
  ELSE "string"

\* C25 on the sheets of numbers and of texts that have no '-' or are dates.
C25_NumbersAndPlainTexts ==
  (\A v \in SheetValues :
      \/ v.t = "number"
      \/ v.t = "string" /\ (~HasDash(v.s) \/ (v.s \in DateStrings /\ NumberIsNaN(v))))
    => C25_SamePredicates

\* The text a-b is a date for type inference and a string for the mixed-type
\* classes.
DashTextDiffers ==
  /\ Delivered
  /\ Str("a-b") \in SheetValues
  /\ InferredClass(Str("a-b")) = "date"
  /\ MixedClass(Str("a-b")) = "string"

(***************************************************************************)
(* Properties of the outlier count.                                        *)
(***************************************************************************)
\* sorted[k] (k from 0) of the values in ascending order: the value with at
\* most k values below it and more than k values not above it.
OrderStatistic(values, k) ==
  CHOOSE x \in Range(values) :
    /\ Cardinality({i \in 1..Len(values) : values[i] < x}) <= k
    /\ Cardinality({i \in 1..Len(values) : values[i] <= x}) > k

\* The number of values strictly outside [Q1 - 1.5 IQR, Q3 + 1.5 IQR], for at
\* least 4 values; 0 for fewer.
OutliersByQuartiles(values) ==
  IF Len(values) < 4 THEN 0
  ELSE LET n == Len(values)
           q1 == OrderStatistic(values, n \div 4)
           q3 == OrderStatistic(values, (3 * n) \div 4)
           iqr == q3 - q1
       IN  Cardinality({i \in 1..n : \/ 2 * values[i] < 2 * q1 - 3 * iqr
                                     \/ 2 * values[i] > 2 * q3 + 3 * iqr})

\* The values different from Q1, counted when IQR = 0.
DifferentFromQ1(values) ==
  Cardinality({i \in 1..Len(values) :
                 values[i] # OrderStatistic(values, Len(values) \div 4)})

QuartilesEqual(values) ==
  OrderStatistic(values, Len(values) \div 4) = OrderStatistic(values, (3 * Len(values)) \div 4)

\* C26: detectOutliers reports no outliers for fewer than 4 values and
\* otherwise counts exactly the values strictly below Q1 - 1.5 IQR or strictly
\* above Q3 + 1.5 IQR, with Q1 = sorted[floor(0.25 n)] and
\* Q3 = sorted[floor(0.75 n)]; with IQR = 0 that is every value different
\* from Q1.  The count shows in the report: a numeric column has an outlier
\* issue iff the count is above 1% of its values, with the count as its
\* affectedRows.
C26_OutliersByQuartiles ==
  Analysed =>
    \A i \in DOMAIN sheet.columns :
      LET c == sheet.columns[i]
          values == OutlierCandidates(c.name)
          count == OutliersByQuartiles(values)
          found == ColumnIssues("outlier", c.name)
      IN  c.type = "number" =>
            /\ detectOutliers(values) = count
            /\ Len(values) < 4 => found = {}
            /\ Len(values) >= 4 /\ QuartilesEqual(values) => count = DifferentFromQ1(values)
            /\ (found # {}) <=> (100 * count > Len(values))
            /\ \A k \in found :
                  /\ qualityReport.issues[k].affectedRows = count
                  /\ PctEqual(qualityReport.issues[k].percentage, <<100 * count, Len(values)>>)

\* The column [1, 1, 1, 1, 100] has one outlier, 20% of its values.
C26_Witness ==
  /\ Analysed
  /\ sheet.rows = [i \in 1..5 |-> [h \in {"A"} |-> IF i = 5 THEN Num(100) ELSE Num(1)]]
  /\ \E k \in ColumnIssues("outlier", "A") :
        /\ qualityReport.issues[k].affectedRows = 1
        /\ PctEqual(qualityReport.issues[k].percentage, <<20, 1>>)

(***************************************************************************)
(* Properties of the histogram.                                            *)
(***************************************************************************)
\* The least k with k * k >= n.
RootCeiling(n) == CHOOSE k \in 1..n : k * k >= n /\ \A j \in 1..(k - 1) : j * j < n

NumericProfiles == {i \in DOMAIN dataProfile.columns : dataProfile.columns[i].hasNumeric}

\* C27: the histogram of a numeric column with n >= 1 numeric values has
\* min(10, ceil(sqrt(n))) bins whose counts sum to n, every value being in
\* exactly one bin; when all values are equal, all n are in the first bin.
C27_HistogramCountsAll ==
  Analysed =>
    \A i \in NumericProfiles :
      LET p == dataProfile.columns[i]
          n == NonNullNumericCount(p.name)
      IN  /\ Len(p.histogram) = Min2(10, RootCeiling(n))
          /\ SumSeq(p.histogram) = n
          /\ p.range = 0 => p.histogram[1] = n

\* C27 on the columns whose values are not all equal.
C27_PositiveRange ==
  (\A i \in NumericProfiles : dataProfile.columns[i].range > 0) => C27_HistogramCountsAll

\* A column of three equal numbers: two bins, both empty.
EqualValuesUncounted ==
  /\ Analysed
  /\ sheet.rows = [i \in 1..3 |-> [h \in {"A"} |-> Num(1)]]
  /\ dataProfile.columns[1].histogram = <<0, 0>>

(***************************************************************************)
(* Properties of the distribution.                                         *)
(***************************************************************************)
\* The text a distribution shows for a cell.
ShownText(v) == TruncateValue(CellToString(v))

\* The rows of a column whose cell is non-null and shows the given text.
RowsShowing(name, text) ==
  {r \in DOMAIN sheet.rows :
     ~IsBlank(sheet.rows[r][name]) /\ ShownText(sheet.rows[r][name]) = text}

ShownTexts(name) == {ShownText(v) : v \in Range(NonNullOf(name))}

FirstRowShowing(name, text) ==
  CHOOSE r \in RowsShowing(name, text) : \A q \in RowsShowing(name, text) : r <= q

\* C28: a distribution lists at most 10 distinct values in non-increasing
\* order of count, values of equal count in first-encountered order; each
\* count is the number of non-null cells equal to the value and each
\* percentage is count / total rows * 100, so the percentages sum to at most
\* 100.
C28_DistributionOfValues ==
  Analysed =>
    \A c \in DOMAIN dataProfile.columns :
      LET p == dataProfile.columns[c]
          d == p.distribution
      IN  /\ Len(d) = Min2(10, Cardinality(ShownTexts(p.name)))
          /\ \A i, j \in 1..Len(d) : d[i].value = d[j].value => i = j
          /\ \A i \in 1..Len(d) :
                /\ d[i].count = Cardinality(RowsShowing(p.name, d[i].value))
                /\ PctEqual(d[i].percentage, <<100 * d[i].count, Len(sheet.rows)>>)
          /\ \A i, j \in 1..Len(d) :
                i < j =>
                  /\ d[i].count >= d[j].count
                  /\ d[i].count = d[j].count /\ d[i].count > 0 =>
                       FirstRowShowing(p.name, d[i].value) < FirstRowShowing(p.name, d[j].value)
          /\ SumSeq([i \in 1..Len(d) |-> d[i].count]) <= Len(sheet.rows)

\* No two cells of a column have different texts that are cut to the same
\* 30 characters.
NoTextsCutAlike ==
  \A c \in DOMAIN sheet.columns :
    \A v, w \in Range(NonNullOf(sheet.columns[c].name)) :
       ShownText(v) = ShownText(w) => CellToString(v) = CellToString(w)

\* C28 on the sheets without such cells.
C28_NoTextsCutAlike == NoTextsCutAlike => C28_DistributionOfValues

\* Two texts that differ after 30 characters are listed as the same value
\* twice.
SameValueTwice ==
  /\ Analysed
  /\ Len(dataProfile.columns[1].distribution) = 2
  /\ dataProfile.columns[1].distribution[1].value = dataProfile.columns[1].distribution[2].value

(***************************************************************************)
(* Properties of the upload.                                               *)
(***************************************************************************)
AllWorksheetsEmpty == \A i \in 1..Len(file) : Len(file[i].jsonData) = 0

\* C22: the analyses never run on a zero-row sheet: every sheet delivered to
\* the dashboard has rowCount >= 1, a file whose worksheets are all empty is
\* rejected without onFileProcessed being called, and a report is computed
\* only for a sheet with at least one row.
C22_NoZeroRowSheet ==
  /\ Delivered =>
       /\ Len(data) >= 1
       /\ \A i \in 1..Len(data) : data[i].rowCount >= 1
       /\ sheet = data[activeSheet + 1]
  /\ AllWorksheetsEmpty => ~Delivered
  /\ ~Delivered => data = <<>> /\ qualityReport = NoReport /\ dataProfile = NoProfile
  /\ phase = "dashboard" => sheet.rowCount >= 1

\* A workbook with an empty worksheet is on the dashboard.
C22_Witness ==
  /\ \E i \in 1..Len(file) : Len(file[i].jsonData) = 0
  /\ phase = "dashboard"
  /\ qualityReport # NoReport

\* A workbook of empty worksheets is rejected.
EmptyWorkbookRejected == AllWorksheetsEmpty /\ phase = "error"

(***************************************************************************)
(* Properties of the stored dashboards.                                    *)
(***************************************************************************)
VersionIds(dashboard) == {dashboard.versions[k].id : k \in 1..Len(dashboard.versions)}

\* Every stored dashboard has versions with pairwise distinct ids, one of
\* them its currentVersion, and no two stored dashboards share an id or a
\* fileName.
StoreWellFormed ==
  /\ \A i \in 1..Len(localStorage) :
        /\ Len(localStorage[i].versions) >= 1
        /\ Cardinality(VersionIds(localStorage[i])) = Len(localStorage[i].versions)
        /\ localStorage[i].currentVersion \in VersionIds(localStorage[i])
  /\ \A i, j \in 1..Len(localStorage) :
        (localStorage[i].id = localStorage[j].id
           \/ localStorage[i].fileName = localStorage[j].fileName) => i = j

\* The versions stored for a dashboard id; none when it is not stored.
VersionsOf(stored, id) ==
  IF FindIndex(stored, "id", id) > 0 THEN stored[FindIndex(stored, "id", id)].versions
  ELSE <<>>

\* A step that leaves a dashboard with fewer versions removes exactly one:
\* the list after it is the list before it without one of its elements.
OneVersionRemoved ==
  \A id \in 1..MaxDashboards :
    LET before == VersionsOf(localStorage, id)
        after == VersionsOf(localStorage', id)
    IN  Len(after) < Len(before) =>
          \E k \in 1..Len(before) :
             after = SubSeq(before, 1, k - 1) \o SubSeq(before, k + 1, Len(before))

\* C30: after any sequence of save-version and delete-version operations
\* every stored dashboard has a non-empty list of versions with pairwise
\* distinct ids, its currentVersion is one of them, the store holds at most
\* one dashboard per id and per fileName, and deleting a version removes
\* exactly that one version (the dashboard with it when it was the last).
C30_StoreWellFormed == []StoreWellFormed /\ [][OneVersionRemoved]_vars

\* Two versions of one dashboard with the same id.
SameVersionIdTwice ==
  \E i \in 1..Len(localStorage) :
     Cardinality(VersionIds(localStorage[i])) < Len(localStorage[i].versions)

\* Two dashboards stored for the same file.
SameFileTwice ==
  \E i, j \in 1..Len(localStorage) :
     i # j /\ localStorage[i].fileName = localStorage[j].fileName

====
